---- MODULE Spec2Model ----
(***************************************************************************)
(* A model of vmtreport: the safe expression evaluator (vmtreport/util.py), *)
(* computed fields (DataField.compute), multikeysort and the grouped data   *)
(* report (GroupedDataReport in vmtreport/__init__.py).                     *)
(*                                                                         *)
(* evaluate(exp) is modelled step by step: the dunder check on the source  *)
(* text, ast.parse in eval mode, the SafeNodeCheck walk, compile and eval  *)
(* with globals {'math': math}.  The source text is a TLA+ string holding  *)
(* the Python source itself; the lexer and the parser below read it        *)
(* character by character.                                                 *)
(***************************************************************************)
EXTENDS Integers, Sequences, FiniteSets, TLC

VARIABLES
    exp,        \* the argument of evaluate(): the expression source text
    caller,     \* names bound in the calling module's scope (e.g. an imported os)
    pc,         \* the statement of evaluate() that runs next
    tree,       \* the result of ast.parse (NoTree before the parse step)
    cobj,       \* the result of compile (NoCode before the compile step)
    result,     \* how evaluate() ended: [exc, val]; exc = "" for a return
    executed,   \* what the eval step ran: the name loads and calls, in order
    steps,      \* the steps of evaluate() that have run so far, in order
    field,      \* DataField.compute: self.value, the expression template
    data,       \* DataField.compute: the row passed in, field id -> value
    handed,     \* DataField.compute: the calls of vu.evaluate(), each its argument
    outcome,    \* DataField.compute: how the call ended, [st, exc, val]
    sortItems,  \* multikeysort: items, the rows to sort, a list of id -> value
    columns,    \* multikeysort: the sort keys, first the primary
    sorted,     \* multikeysort: how the call ended, [st, exc, val]
    config,     \* GroupedDataReport: fields, group ids, sort keys, and what
                \* the connection answers
    cache,      \* GroupedDataReport: self.__cache
    calls,      \* GroupedDataReport: the requests made to the connection
    groupRow,   \* GroupedDataReport.apply: _row
    rows,       \* GroupedDataReport.apply: data
    stage,      \* GroupedDataReport.apply: the statement that runs next
    log,        \* GroupedDataReport._get_group_data: the tracebacks printed
    report,     \* GroupedDataReport.apply: how the call ended, [st, exc, val]
    treeData,   \* DataField.tree_get: data, a nested mapping
    treePath,   \* DataField.tree_get: self.value, the colon-delimited path
    treeGot,    \* DataField.tree_get: how the call ended, [st, exc, val]
    filterConfig, \* FilterSet(config, base): config
    filterBase, \* FilterSet(config, base): base.values, or None without a base
    filterValues, \* FilterSet(config, base): how it ended, val being self.values
    castArgs,   \* unit_cast, mem_cast, cpu_cast: the function called and its arguments
    castResult, \* unit_cast, mem_cast, cpu_cast: how the call ended, [st, exc, val]
    options,    \* ActionDataReport: the options it is built from
    platform,   \* ActionDataReport: what the connection answers
    sets,       \* ActionDataReport: self.__sets, scope id -> action set, in order
    requests,   \* ActionDataReport: the calls made of the connection, in order
    pager,      \* ActionSet.get_actions: resp, the pages not yet read
    actions,    \* ActionSet.get_actions: actions, the pages read so far
    table,      \* ActionDataReport.apply: data
    point,      \* ActionDataReport: the statement that runs next
    ended       \* ActionDataReport: how construction or apply() ended

evaluateVars == <<exp, caller, pc, tree, cobj, result, executed, steps>>
computeVars == <<field, data, handed, outcome>>
sortVars == <<sortItems, columns, sorted>>
reportVars == <<config, cache, calls, groupRow, rows, stage, log, report>>
treeVars == <<treeData, treePath, treeGot>>
filterVars == <<filterConfig, filterBase, filterValues>>
castVars == <<castArgs, castResult>>
actionVars == <<options, platform, sets, requests, pager, actions, table, point, ended>>
\* the variables evaluate() does not touch
notEvaluateVars == <<computeVars, sortVars, reportVars, treeVars, filterVars, castVars, actionVars>>
\* the variables compute() does not touch
notComputeVars == <<evaluateVars, sortVars, reportVars, treeVars, filterVars, castVars, actionVars>>
\* the variables multikeysort() does not touch
notSortVars == <<evaluateVars, computeVars, reportVars, treeVars, filterVars, castVars, actionVars>>
\* the variables GroupedDataReport does not touch
notReportVars == <<evaluateVars, computeVars, sortVars, treeVars, filterVars, castVars, actionVars>>
\* the variables tree_get() does not touch
notTreeVars == <<evaluateVars, computeVars, sortVars, reportVars, filterVars, castVars, actionVars>>
\* the variables FilterSet does not touch
notFilterVars == <<evaluateVars, computeVars, sortVars, reportVars, treeVars, castVars, actionVars>>
\* the variables the unit casts do not touch
notCastVars == <<evaluateVars, computeVars, sortVars, reportVars, treeVars, filterVars, actionVars>>
\* the variables ActionDataReport does not touch
notActionVars == <<evaluateVars, computeVars, sortVars, reportVars, treeVars, filterVars, castVars>>
vars == <<evaluateVars, computeVars, sortVars, reportVars, treeVars, filterVars, castVars,
          actionVars>>

---------------------------------------------------------------------------
(* Characters and strings *)

Ch(s, i) == SubSeq(s, i, i)

LOWERCASE == "abcdefghijklmnopqrstuvwxyz"
UPPERCASE == "ABCDEFGHIJKLMNOPQRSTUVWXYZ"
DIGITS == "0123456789"

\* 0 when the one-character string c does not occur in s, else its position
IndexOf(s, c) ==
    IF \E i \in 1..Len(s) : Ch(s, i) = c
    THEN CHOOSE i \in 1..Len(s) : Ch(s, i) = c
    ELSE 0

IsLower(c) == IndexOf(LOWERCASE, c) > 0
IsUpper(c) == IndexOf(UPPERCASE, c) > 0
IsDigit(c) == IndexOf(DIGITS, c) > 0
IsIdStart(c) == IsLower(c) \/ IsUpper(c) \/ c = "_"
IsIdChar(c) == IsIdStart(c) \/ IsDigit(c)
IsBlank(c) == c \in {" ", "\t"}

\* str.lower() on one character
LowerChar(c) ==
    IF IsUpper(c) THEN Ch(LOWERCASE, IndexOf(UPPERCASE, c)) ELSE c

RECURSIVE LowerFrom(_, _)
LowerFrom(s, i) ==
    IF i > Len(s) THEN "" ELSE LowerChar(Ch(s, i)) \o LowerFrom(s, i + 1)

\* str.lower()
Lower(s) == LowerFrom(s, 1)

\* Python's `sub in s` on strings
Contains(s, sub) ==
    \E i \in 1..(Len(s) - Len(sub) + 1) : SubSeq(s, i, i + Len(sub) - 1) = sub

---------------------------------------------------------------------------
(* The tokenizer of ast.parse *)

Tok(t, s) == [t |-> t, s |-> s]

KEYWORDS == {"False", "None", "True", "and", "as", "assert", "async", "await",
             "break", "class", "continue", "def", "del", "elif", "else",
             "except", "finally", "for", "from", "global", "if", "import",
             "in", "is", "lambda", "nonlocal", "not", "or", "pass", "raise",
             "return", "try", "while", "with", "yield"}

OPS2 == {":=", "==", "!=", "<=", ">=", "//", "**", "+=", "-=", "*=", "/="}
OPS1 == {"(", ")", "[", "]", "{", "}", ".", ",", ":", ";", "+", "-", "*",
         "/", "%", "=", "<", ">"}
OPENERS == {"(", "[", "{"}
CLOSERS == {")", "]", "}"}

\* the least position j >= i of s whose character is in stop, Len(s) + 1
\* when there is none
Scan(s, i, Stop(_)) ==
    LET js == {j \in i..Len(s) : Stop(Ch(s, j))}
    IN  IF js = {} THEN Len(s) + 1 ELSE CHOOSE j \in js : \A k \in js : j <= k

\* the position after the identifier characters that start at i
IdEnd(s, i) == Scan(s, i, LAMBDA c : ~IsIdChar(c))
\* the position after the digits that start at i
NumEnd(s, i) == Scan(s, i, LAMBDA c : ~IsDigit(c))
\* the position after the spaces and tabs that start at i
BlankEnd(s, i) == Scan(s, i, LAMBDA c : ~IsBlank(c))
\* the position of the next newline at or after i, Len(s) + 1 without one
LineEnd(s, i) == Scan(s, i, LAMBDA c : c = "\n")
\* the position of the quote q closing a literal whose body starts at i;
\* 0 when the line or the text ends first
StrEnd(s, i, q) ==
    LET e == Scan(s, i, LAMBDA c : c = q \/ c = "\n")
    IN  IF e <= Len(s) /\ Ch(s, e) = q THEN e ELSE 0

AtLineStart(s, i) == i = 1 \/ Ch(s, i - 1) = "\n"

Lexeme(t, s, next) == [t |-> t, s |-> s, next |-> next]

\* the lexeme at position b of s, b not a blank
LexemeAt(s, b) ==
    LET c == Ch(s, b)
        c2 == IF b < Len(s) THEN SubSeq(s, b, b + 1) ELSE c
    IN  CASE c = "#" -> Lexeme("SKIP", "", LineEnd(s, b))
          [] c = "\n" -> Lexeme("NEWLINE", "", b + 1)
          [] c \in {"'", "\""} ->
                LET e == StrEnd(s, b + 1, c)
                IN  IF e = 0 THEN Lexeme("ERROR", "unterminated string literal", b)
                    ELSE Lexeme("STRING", SubSeq(s, b, e), e + 1)
          [] IsDigit(c) ->
                LET e == NumEnd(s, b)
                IN  IF e <= Len(s) /\ IsIdStart(Ch(s, e))
                    THEN Lexeme("ERROR", "invalid decimal literal", b)
                    ELSE Lexeme("NUMBER", SubSeq(s, b, e - 1), e)
          [] IsIdStart(c) ->
                LET w == SubSeq(s, b, IdEnd(s, b) - 1)
                IN  Lexeme(IF w \in KEYWORDS THEN "KEYWORD" ELSE "NAME", w, b + Len(w))
          [] OTHER ->
                IF c2 \in OPS2 THEN Lexeme("OP", c2, b + 2)
                ELSE IF c \in OPS1 THEN Lexeme("OP", c, b + 1)
                ELSE Lexeme("ERROR", "invalid character", b)

\* the lexeme that starts at or after position i of s, blanks skipped;
\* blanks before the first token of a line are an unexpected indent
NextLexeme(s, i, depth) ==
    LET b == BlankEnd(s, i)
    IN  IF b > Len(s) THEN Lexeme("SKIP", "", b)
        ELSE IF depth = 0 /\ b > i /\ AtLineStart(s, i) /\ Ch(s, b) \notin {"\n", "#"}
        THEN Lexeme("ERROR", "unexpected indent", b)
        ELSE LexemeAt(s, b)

RECURSIVE Lex(_, _, _, _)
\* the tokens of s from position i on, appended to acc; depth counts the
\* open brackets (a newline inside brackets joins the lines, and blank
\* lines give no token).  A lexical error ends the tokens with an ERROR token.
LexStep(s, lx, depth, acc) ==
    CASE lx.t = "ERROR" -> Append(acc, Tok("ERROR", lx.s))
      [] lx.t = "SKIP" -> Lex(s, lx.next, depth, acc)
      [] lx.t = "NEWLINE" ->
            Lex(s, lx.next, depth,
                IF depth > 0 \/ acc = <<>> \/ acc[Len(acc)].t = "NEWLINE" THEN acc
                ELSE Append(acc, Tok("NEWLINE", "")))
      [] OTHER ->
            Lex(s, lx.next,
                IF lx.t = "OP" /\ lx.s \in OPENERS THEN depth + 1
                ELSE IF lx.t = "OP" /\ lx.s \in CLOSERS /\ depth > 0 THEN depth - 1
                ELSE depth,
                Append(acc, Tok(lx.t, lx.s)))

Lex(s, i, depth, acc) ==
    IF i > Len(s)
    THEN IF depth > 0 THEN Append(acc, Tok("ERROR", "never closed")) ELSE acc
    ELSE LexStep(s, NextLexeme(s, i, depth), depth, acc)

\* the token stream the parser reads
Tokenize(s) == Lex(s, 1, 0, <<>>)

---------------------------------------------------------------------------
(* The parser of ast.parse(exp, mode='eval'): a recursive descent over the  *)
(* tokens, building the tree SafeNodeCheck walks.  A node is [t, s, kids]:  *)
(* its ast class name, its string field (Name.id, Attribute.attr, the       *)
(* operator, the text of a Constant) and its child nodes in field order.    *)

N(t, s, kids) == [t |-> t, s |-> s, kids |-> kids]
NoNode == N("", "", <<>>)

\* a parse result: the node and the position of the next token
PR(node, pos) == [ok |-> TRUE, node |-> node, pos |-> pos]
Fail == [ok |-> FALSE, node |-> NoNode, pos |-> 0]

TokAt(toks, p) == IF p >= 1 /\ p <= Len(toks) THEN toks[p] ELSE Tok("END", "")
IsOp(toks, p, o) == TokAt(toks, p) = Tok("OP", o)
IsKw(toks, p, k) == TokAt(toks, p) = Tok("KEYWORD", k)
IsName(toks, p) == TokAt(toks, p).t = "NAME"

\* The binary operator that starts at token p: [lvl, op, len], its
\* precedence level (1 or, 2 and, 4 comparison, 5 additive, 6
\* multiplicative, 8 power; none: 0), its name and its number of tokens
BinaryAt(toks, p) ==
    LET tk == TokAt(toks, p)
        nx == TokAt(toks, p + 1)
        B(lvl, op, len) == [lvl |-> lvl, op |-> op, len |-> len]
    IN  CASE tk = Tok("KEYWORD", "or") -> B(1, "or", 1)
          [] tk = Tok("KEYWORD", "and") -> B(2, "and", 1)
          [] tk = Tok("KEYWORD", "not") /\ nx = Tok("KEYWORD", "in") -> B(4, "notin", 2)
          [] tk = Tok("KEYWORD", "is") /\ nx = Tok("KEYWORD", "not") -> B(4, "isnot", 2)
          [] tk = Tok("KEYWORD", "is") /\ nx # Tok("KEYWORD", "not") -> B(4, "is", 1)
          [] tk = Tok("KEYWORD", "in") -> B(4, "in", 1)
          [] tk.t = "OP" /\ tk.s \in {"==", "!=", "<", ">", "<=", ">="} -> B(4, tk.s, 1)
          [] tk.t = "OP" /\ tk.s \in {"+", "-"} -> B(5, tk.s, 1)
          [] tk.t = "OP" /\ tk.s \in {"*", "/", "//", "%"} -> B(6, tk.s, 1)
          [] tk = Tok("OP", "**") -> B(8, "**", 1)
          [] OTHER -> B(0, "", 0)

\* left <op> right as a node.  chained says that left was built by the same
\* loop from an operator of the same level: a BoolOp then takes one more
\* value and a Compare one more operator and operand
\* (Compare kids: the first operand, the operators, the other operands).
Combine(b, left, right, chained) ==
    CASE b.lvl \in {1, 2} ->
            IF chained /\ left.s = b.op
            THEN N("BoolOp", b.op, Append(left.kids, right))
            ELSE N("BoolOp", b.op, <<left, right>>)
      [] b.lvl = 4 ->
            IF chained
            THEN LET n == (Len(left.kids) - 1) \div 2
                 IN  N("Compare", "",
                       SubSeq(left.kids, 1, n + 1) \o <<N("cmpop", b.op, <<>>)>>
                       \o SubSeq(left.kids, n + 2, 2 * n + 1) \o <<right>>)
            ELSE N("Compare", "", <<left, N("cmpop", b.op, <<>>), right>>)
      [] OTHER -> N("BinOp", b.op, <<left, right>>)


RECURSIVE ParseRule(_, _, _, _)

\* The functions of the parser call each other through ParseRule: each
\* applies the grammar rule of its name at token p, x holding what the
\* rule has read so far
ParseTest(toks, p) == ParseRule("test", toks, p, <<>>)
ParseNamedTest(toks, p) == ParseRule("namedexpr_test", toks, p, <<>>)
ParseParams(toks, p, args, defaults) == ParseRule("varargslist", toks, p, <<args, defaults>>)
ParseExpr(toks, p, minLvl) == ParseRule("expr", toks, p, <<minLvl>>)
ParseBinRest(toks, left, p, minLvl, last) == ParseRule("binary", toks, p, <<left, minLvl, last>>)
ParseUnary(toks, p, minLvl) == ParseRule("unary", toks, p, <<minLvl>>)
ParseTrailers(toks, left, p) == ParseRule("trailer", toks, p, <<left>>)
ParseArgs(toks, p, acc) == ParseRule("arglist", toks, p, <<acc>>)
ParseAtom(toks, p) == ParseRule("atom", toks, p, <<>>)
ParseItems(toks, p, closer, acc) == ParseRule("testlist_comp", toks, p, <<closer, acc>>)
ParseDictItems(toks, p, keys, values) == ParseRule("dictorsetmaker", toks, p, <<keys, values>>)
ParseCompFor(toks, p, acc) == ParseRule("comp_for", toks, p, <<acc>>)
ParseCompIfs(toks, p, acc) == ParseRule("comp_if", toks, p, <<acc>>)
ParseTestList(toks, p, acc) == ParseRule("testlist", toks, p, <<acc>>)

\* the rest of a conditional expression after its body a:
\* ['if' or_test 'else' test]
ParseIfElse(toks, a) ==
    IF ~a.ok \/ ~IsKw(toks, a.pos, "if") THEN a
    ELSE LET c == ParseExpr(toks, a.pos + 1, 1)
             e == IF c.ok /\ IsKw(toks, c.pos, "else")
                  THEN ParseTest(toks, c.pos + 1) ELSE Fail
         IN  IF e.ok THEN PR(N("IfExp", "", <<c.node, a.node, e.node>>), e.pos)
             ELSE Fail

\* a lambda from the position after its keyword: the parameters, the body
ParseLambda(toks, p) ==
    LET a == ParseParams(toks, p, <<>>, <<>>)
        b == IF a.ok THEN ParseTest(toks, a.pos) ELSE Fail
    IN  IF b.ok THEN PR(N("Lambda", "", <<a.node, b.node>>), b.pos) ELSE Fail

\* test: lambda | or_test ['if' or_test 'else' test]
TestRule(toks, p) ==
    IF IsKw(toks, p, "lambda") THEN ParseLambda(toks, p + 1)
    ELSE ParseIfElse(toks, ParseExpr(toks, p, 1))

\* namedexpr_test: NAME ':=' test | test
NamedTestRule(toks, p) ==
    IF IsName(toks, p) /\ IsOp(toks, p + 1, ":=")
    THEN LET v == ParseTest(toks, p + 2)
         IN  IF v.ok
             THEN PR(N("NamedExpr", "", <<N("Name", toks[p].s, <<>>), v.node>>), v.pos)
             ELSE Fail
    ELSE ParseTest(toks, p)

\* the parameters of a lambda up to its ':', NAME ['=' test] separated by
\* commas; args and defaults collect the arg nodes and the default values
ParamsRule(toks, p, args, defaults) ==
    IF IsOp(toks, p, ":") /\ args = <<>>
    THEN PR(N("arguments", "", <<>>), p + 1)
    ELSE IF ~IsName(toks, p) THEN Fail
    ELSE
    LET a == Append(args, N("arg", toks[p].s, <<>>))
        hasDefault == IsOp(toks, p + 1, "=")
        d == IF hasDefault THEN ParseTest(toks, p + 2) ELSE PR(NoNode, p + 1)
        ds == IF hasDefault THEN Append(defaults, d.node) ELSE defaults
    IN  CASE ~d.ok -> Fail
          [] d.ok /\ IsOp(toks, d.pos, ":") -> PR(N("arguments", "", a \o ds), d.pos + 1)
          [] d.ok /\ IsOp(toks, d.pos, ",") -> ParseParams(toks, d.pos + 1, a, ds)
          [] OTHER -> Fail

\* an operand and the binary operators of level minLvl or tighter after it
ExprRule(toks, p, minLvl) ==
    LET a == ParseUnary(toks, p, minLvl)
    IN  IF a.ok THEN ParseBinRest(toks, a.node, a.pos, minLvl, 0) ELSE Fail

\* the operators after the operand left, which ends before token p; last is
\* the level of the operator this loop combined last (0: none yet)
BinRestRule(toks, left, p, minLvl, last) ==
    LET b == BinaryAt(toks, p)
        \* ** binds its right operand as a factor; the others are left-associative
        r == ParseExpr(toks, p + b.len, IF b.lvl = 8 THEN 7 ELSE b.lvl + 1)
    IN  IF b.lvl = 0 \/ b.lvl < minLvl THEN PR(left, p)
        ELSE IF ~r.ok THEN Fail
        ELSE ParseBinRest(toks, Combine(b, left, r.node, last = b.lvl), r.pos,
                          minLvl, b.lvl)

\* not_test, factor and await_primary: the prefix operators, then a primary
UnaryRule(toks, p, minLvl) ==
    LET tk == TokAt(toks, p)
    IN  CASE tk = Tok("KEYWORD", "not") ->
                IF minLvl > 3 THEN Fail
                ELSE LET a == ParseExpr(toks, p + 1, 3)
                     IN  IF a.ok THEN PR(N("UnaryOp", "not", <<a.node>>), a.pos) ELSE Fail
          [] tk \in {Tok("OP", "-"), Tok("OP", "+")} ->
                LET a == ParseExpr(toks, p + 1, 7)
                IN  IF a.ok THEN PR(N("UnaryOp", tk.s, <<a.node>>), a.pos) ELSE Fail
          [] tk = Tok("KEYWORD", "await") ->
                LET a == ParseAtom(toks, p + 1)
                    b == IF a.ok THEN ParseTrailers(toks, a.node, a.pos) ELSE Fail
                IN  IF b.ok THEN PR(N("Await", "", <<b.node>>), b.pos) ELSE Fail
          [] OTHER ->
                LET a == ParseAtom(toks, p)
                IN  IF a.ok THEN ParseTrailers(toks, a.node, a.pos) ELSE Fail

\* the trailers after the primary left, which ends before token p:
\* .NAME, (arguments), [subscript]
TrailersRule(toks, left, p) ==
    CASE IsOp(toks, p, ".") ->
            IF IsName(toks, p + 1)
            THEN ParseTrailers(toks, N("Attribute", toks[p + 1].s, <<left>>), p + 2)
            ELSE Fail
      [] IsOp(toks, p, "(") ->
            LET a == ParseArgs(toks, p + 1, <<>>)
            IN  IF a.ok
                THEN ParseTrailers(toks, N("Call", "", <<left>> \o a.node.kids), a.pos)
                ELSE Fail
      [] IsOp(toks, p, "[") ->
            LET i == ParseTest(toks, p + 1)
            IN  IF i.ok /\ IsOp(toks, i.pos, "]")
                THEN ParseTrailers(toks, N("Subscript", "", <<left, i.node>>), i.pos + 1)
                ELSE Fail
      [] OTHER -> PR(left, p)

\* the arguments of a call up to its ')': positional arguments, NAME=value
\* keywords, or one bare generator expression
ArgsRule(toks, p, acc) ==
    IF IsOp(toks, p, ")") THEN PR(N("args", "", acc), p + 1)
    ELSE
    LET kw == IsName(toks, p) /\ IsOp(toks, p + 1, "=")
        a == IF kw THEN ParseTest(toks, p + 2) ELSE ParseNamedTest(toks, p)
        node == IF kw THEN N("keyword", toks[p].s, <<a.node>>) ELSE a.node
        \* positional argument follows keyword argument
        misplaced == ~kw /\ \E i \in 1..Len(acc) : acc[i].t = "keyword"
    IN  CASE ~a.ok \/ misplaced -> Fail
          [] a.ok /\ ~misplaced /\ IsKw(toks, a.pos, "for") ->
                IF kw \/ acc # <<>> THEN Fail
                ELSE LET g == ParseCompFor(toks, a.pos, <<>>)
                     IN  IF g.ok /\ IsOp(toks, g.pos, ")")
                         THEN PR(N("args", "",
                                   <<N("GeneratorExp", "", <<node>> \o g.node.kids)>>),
                                 g.pos + 1)
                         ELSE Fail
          [] a.ok /\ ~misplaced /\ IsOp(toks, a.pos, ",") ->
                ParseArgs(toks, a.pos + 1, Append(acc, node))
          [] a.ok /\ ~misplaced /\ IsOp(toks, a.pos, ")") ->
                PR(N("args", "", Append(acc, node)), a.pos + 1)
          [] OTHER -> Fail

RECURSIVE ParseStrings(_, _, _)
\* adjacent string literals are one Constant: 'a' 'b' is 'ab'
ParseStrings(toks, p, acc) ==
    IF TokAt(toks, p).t = "STRING"
    THEN ParseStrings(toks, p + 1,
                      acc \o SubSeq(toks[p].s, 2, Len(toks[p].s) - 1))
    ELSE PR(N("Constant", "'" \o acc \o "'", <<>>), p)

\* the rest of a display after its items acc, up to its closer: more
\* namedexpr_test after commas.  The result's s is "," when a comma was read.
ItemsRule(toks, p, closer, acc) ==
    CASE IsOp(toks, p, closer) ->
            PR(N("items", IF Len(acc) > 1 THEN "," ELSE "", acc), p + 1)
      [] IsOp(toks, p, ",") /\ IsOp(toks, p + 1, closer) ->
            PR(N("items", ",", acc), p + 2)
      [] IsOp(toks, p, ",") /\ ~IsOp(toks, p + 1, closer) ->
            LET a == ParseNamedTest(toks, p + 1)
            IN  IF a.ok THEN ParseItems(toks, a.pos, closer, Append(acc, a.node))
                ELSE Fail
      [] OTHER -> Fail

\* the rest of a dict display after its items, up to its '}'
DictItemsRule(toks, p, keys, values) ==
    CASE IsOp(toks, p, "}") -> PR(N("Dict", "", keys \o values), p + 1)
      [] IsOp(toks, p, ",") /\ IsOp(toks, p + 1, "}") ->
            PR(N("Dict", "", keys \o values), p + 2)
      [] IsOp(toks, p, ",") /\ ~IsOp(toks, p + 1, "}") ->
            LET k == ParseTest(toks, p + 1)
                v == IF k.ok /\ IsOp(toks, k.pos, ":")
                     THEN ParseTest(toks, k.pos + 1) ELSE Fail
            IN  IF v.ok
                THEN ParseDictItems(toks, v.pos, Append(keys, k.node),
                                    Append(values, v.node))
                ELSE Fail
      [] OTHER -> Fail

RECURSIVE ParseTargets(_, _, _)
\* the names a for clause binds, up to its 'in': NAME (',' NAME)*
ParseTargets(toks, p, acc) ==
    IF ~IsName(toks, p) THEN Fail
    ELSE
    LET names == Append(acc, N("Name", toks[p].s, <<>>))
    IN  CASE IsOp(toks, p + 1, ",") -> ParseTargets(toks, p + 2, names)
          [] IsKw(toks, p + 1, "in") ->
                PR(IF Len(names) = 1 THEN names[1] ELSE N("Tuple", "", names), p + 2)
          [] OTHER -> Fail

\* the conditions of one for clause: ('if' or_test)*
CompIfsRule(toks, p, acc) ==
    IF IsKw(toks, p, "if")
    THEN LET c == ParseExpr(toks, p + 1, 1)
         IN  IF c.ok THEN ParseCompIfs(toks, c.pos, Append(acc, c.node)) ELSE Fail
    ELSE PR(N("ifs", "", acc), p)

\* the for clauses of a comprehension, from the keyword for at p: each is
\* a comprehension node with the kids target, iter, ifs...
CompForRule(toks, p, acc) ==
    IF ~IsKw(toks, p, "for")
    THEN IF acc = <<>> THEN Fail ELSE PR(N("generators", "", acc), p)
    ELSE
    LET tg == ParseTargets(toks, p + 1, <<>>)
        it == IF tg.ok THEN ParseExpr(toks, tg.pos, 1) ELSE Fail
        cs == IF it.ok THEN ParseCompIfs(toks, it.pos, <<>>) ELSE Fail
    IN  IF cs.ok
        THEN ParseCompFor(toks, cs.pos,
                 Append(acc, N("comprehension", "", <<tg.node, it.node>> \o cs.node.kids)))
        ELSE Fail

\* yield_expr, from the keyword yield at p: 'yield' 'from' test | 'yield' [test]
ParseYield(toks, p) ==
    CASE IsKw(toks, p + 1, "from") ->
            LET v == ParseTest(toks, p + 2)
            IN  IF v.ok THEN PR(N("YieldFrom", "", <<v.node>>), v.pos) ELSE Fail
      [] IsOp(toks, p + 1, ")") -> PR(N("Yield", "", <<>>), p + 1)
      [] OTHER ->
            LET v == ParseTest(toks, p + 1)
            IN  IF v.ok THEN PR(N("Yield", "", <<v.node>>), v.pos) ELSE Fail

\* the clauses of a comprehension of the class class over the element nodes
\* elts, from the keyword for at p up to the closer
ParseComp(toks, p, closer, class, elts) ==
    LET g == ParseCompFor(toks, p, <<>>)
    IN  IF g.ok /\ IsOp(toks, g.pos, closer)
        THEN PR(N(class, "", elts \o g.node.kids), g.pos + 1)
        ELSE Fail

\* the inside of ( ), from the token after the opener
ParseParen(toks, p) ==
    LET a == ParseNamedTest(toks, p)
        it == ParseItems(toks, a.pos, ")", <<a.node>>)
    IN  CASE ~a.ok -> Fail
          [] a.ok /\ IsKw(toks, a.pos, "for") ->
                ParseComp(toks, a.pos, ")", "GeneratorExp", <<a.node>>)
          [] a.ok /\ IsOp(toks, a.pos, ")") -> PR(a.node, a.pos + 1)
          [] OTHER -> IF it.ok THEN PR(N("Tuple", "", it.node.kids), it.pos) ELSE Fail

\* the inside of [ ], from the token after the opener
ParseList(toks, p) ==
    LET a == ParseNamedTest(toks, p)
        it == ParseItems(toks, a.pos, "]", <<a.node>>)
    IN  CASE ~a.ok -> Fail
          [] a.ok /\ IsKw(toks, a.pos, "for") ->
                ParseComp(toks, a.pos, "]", "ListComp", <<a.node>>)
          [] OTHER -> IF it.ok THEN PR(N("List", "", it.node.kids), it.pos) ELSE Fail

\* the inside of { }, from the token after the opener: a dict or a set
ParseBrace(toks, p) ==
    LET a == ParseNamedTest(toks, p)
        v == IF a.ok /\ IsOp(toks, a.pos, ":") THEN ParseTest(toks, a.pos + 1)
             ELSE Fail
        it == ParseItems(toks, a.pos, "}", <<a.node>>)
    IN  CASE ~a.ok -> Fail
          [] a.ok /\ IsOp(toks, a.pos, ":") ->
                IF ~v.ok THEN Fail
                ELSE IF IsKw(toks, v.pos, "for")
                THEN ParseComp(toks, v.pos, "}", "DictComp", <<a.node, v.node>>)
                ELSE ParseDictItems(toks, v.pos, <<a.node>>, <<v.node>>)
          [] a.ok /\ IsKw(toks, a.pos, "for") ->
                ParseComp(toks, a.pos, "}", "SetComp", <<a.node>>)
          [] OTHER -> IF it.ok THEN PR(N("Set", "", it.node.kids), it.pos) ELSE Fail

\* atom: a name, a literal, or a bracketed form
AtomRule(toks, p) ==
    LET tk == TokAt(toks, p)
        y == ParseYield(toks, p + 1)
    IN  CASE tk.t = "NAME" -> PR(N("Name", tk.s, <<>>), p + 1)
          [] tk.t = "NUMBER" -> PR(N("Constant", tk.s, <<>>), p + 1)
          [] tk.t = "STRING" -> ParseStrings(toks, p, "")
          [] tk.t = "KEYWORD" /\ tk.s \in {"None", "True", "False"} ->
                PR(N("Constant", tk.s, <<>>), p + 1)
          [] tk = Tok("OP", "(") /\ IsKw(toks, p + 1, "yield") ->
                IF y.ok /\ IsOp(toks, y.pos, ")") THEN PR(y.node, y.pos + 1) ELSE Fail
          [] tk = Tok("OP", "(") /\ IsOp(toks, p + 1, ")") -> PR(N("Tuple", "", <<>>), p + 2)
          [] tk = Tok("OP", "(") /\ ~IsKw(toks, p + 1, "yield") /\ ~IsOp(toks, p + 1, ")") ->
                ParseParen(toks, p + 1)
          [] tk = Tok("OP", "[") ->
                IF IsOp(toks, p + 1, "]") THEN PR(N("List", "", <<>>), p + 2)
                ELSE ParseList(toks, p + 1)
          [] tk = Tok("OP", "{") ->
                IF IsOp(toks, p + 1, "}") THEN PR(N("Dict", "", <<>>), p + 2)
                ELSE ParseBrace(toks, p + 1)
          [] OTHER -> Fail

\* testlist: test (',' test)* [','], up to a NEWLINE or the end
TestListRule(toks, p, acc) ==
    LET a == ParseTest(toks, p)
    IN  CASE ~a.ok -> Fail
          [] a.ok /\ IsOp(toks, a.pos, ",") ->
                IF TokAt(toks, a.pos + 1).t \in {"END", "NEWLINE"}
                THEN PR(N("Tuple", "", Append(acc, a.node)), a.pos + 1)
                ELSE ParseTestList(toks, a.pos + 1, Append(acc, a.node))
          [] OTHER -> IF acc = <<>> THEN a
                      ELSE PR(N("Tuple", "", Append(acc, a.node)), a.pos)

\* the grammar rule rule at token p
ParseRule(rule, toks, p, x) ==
    CASE rule = "test" -> TestRule(toks, p)
      [] rule = "namedexpr_test" -> NamedTestRule(toks, p)
      [] rule = "varargslist" -> ParamsRule(toks, p, x[1], x[2])
      [] rule = "expr" -> ExprRule(toks, p, x[1])
      [] rule = "binary" -> BinRestRule(toks, x[1], p, x[2], x[3])
      [] rule = "unary" -> UnaryRule(toks, p, x[1])
      [] rule = "trailer" -> TrailersRule(toks, x[1], p)
      [] rule = "arglist" -> ArgsRule(toks, p, x[1])
      [] rule = "atom" -> AtomRule(toks, p)
      [] rule = "testlist_comp" -> ItemsRule(toks, p, x[1], x[2])
      [] rule = "dictorsetmaker" -> DictItemsRule(toks, p, x[1], x[2])
      [] rule = "comp_for" -> CompForRule(toks, p, x[1])
      [] rule = "comp_if" -> CompIfsRule(toks, p, x[1])
      [] rule = "testlist" -> TestListRule(toks, p, x[1])

\* the tokenizer's verdict: some token is an error
HasError(toks) == \E i \in 1..Len(toks) : toks[i].t = "ERROR"

\* the value of the variable tree before the parse step
NoTree == N("NoTree", "", <<>>)

\* eval_input without its ENDMARKER: the testlist, whatever follows it
EvalInputPrefix(toks, b) ==
    IF b.ok THEN [ok |-> TRUE, node |-> N("Expression", "", <<b.node>>)]
    ELSE [ok |-> FALSE, node |-> NoTree]

\* eval_input: testlist NEWLINE* ENDMARKER.  b is the testlist read from
\* the first token on; what follows it is one NEWLINE at most
EvalInput(toks, b) ==
    IF b.ok /\ Len(toks) + 1 = (IF TokAt(toks, b.pos).t = "NEWLINE" THEN b.pos + 1
                                ELSE b.pos)
    THEN [ok |-> TRUE, node |-> N("Expression", "", <<b.node>>)]
    ELSE [ok |-> FALSE, node |-> NoTree]

\* the parse of the token stream toks
ParseTokens(toks) ==
    EvalInput(toks, IF HasError(toks) THEN Fail ELSE ParseTestList(toks, 1, <<>>))

\* ast.parse(exp, mode='eval'): [ok, node]; ok is FALSE for a SyntaxError,
\* else node is the Expression node
Parse(s) == ParseTokens(Tokenize(s))

---------------------------------------------------------------------------
(* SafeNodeCheck: the tree walk *)

\* all dunder names are implicitly excluded
INVALID_NAMES ==
    {"callable", "class", "classmethod", "compile", "def", "del", "delattr",
     "dir", "eval", "exec", "execfile", "file", "filter", "getattr",
     "globals", "hasattr", "help", "id", "import", "input", "isinstance",
     "issubclass", "lambda", "locals", "object", "open", "print",
     "raw_input", "reload", "repr", "setattr", "type"}

\* the expression classes SafeNodeCheck.__init__ binds visit_<class> to Invalid for
INVALID_EXPR ==
    {"Await", "GeneratorExp", "Lambda", "NamedExpr", "Yield", "YieldFrom"}

\* the outcome of a visit: "" when it returns, else the exception class raised
Invalid == "SyntaxError"

\* the test of visit_Name without its lower(): node.id in INVALID_NAMES
IsInvalidNameExact(id) == id \in INVALID_NAMES

\* the test of visit_Name: node.id.lower() in INVALID_NAMES
IsInvalidName(id) == Lower(id) \in INVALID_NAMES

\* SafeNodeCheck without its visit_Lambda
IsInvalidExprNoLambda(class) == class \in INVALID_EXPR \ {"Lambda"}

\* whether SafeNodeCheck has a visit_<class> method raising Invalid
IsInvalidExpr(class) == class \in INVALID_EXPR

RECURSIVE visit(_)
RECURSIVE VisitEach(_, _)

\* ast.NodeVisitor.generic_visit: visit every child node, in field order
generic_visit(node) == VisitEach(node.kids, 1)

\* visit_Name raising NameError in place of Invalid's SyntaxError
visit_NameAsNameError(node) ==
    IF IsInvalidName(node.s) THEN "NameError" ELSE generic_visit(node)

visit_Name(node) ==
    IF IsInvalidName(node.s) THEN Invalid ELSE generic_visit(node)

\* ast.NodeVisitor.visit: dispatch on the node's class name
visit(node) ==
    IF IsInvalidExpr(node.t) THEN Invalid
    ELSE IF node.t = "Name" THEN visit_Name(node)
    ELSE generic_visit(node)

VisitEach(nodes, i) ==
    IF i > Len(nodes) THEN ""
    ELSE LET r == visit(nodes[i])
         IN  IF r # "" THEN r ELSE VisitEach(nodes, i + 1)

\* SafeNodeCheck().visit(tree)
SafeNodeCheck(t) == visit(t)

---------------------------------------------------------------------------
(* compile(tree, '<ast>', 'eval') *)

RECURSIVE HasAwait(_)
RECURSIVE AnyAwait(_, _)
\* an await anywhere in the tree (no function of this grammar is async)
HasAwait(node) == node.t = "Await" \/ AnyAwait(node.kids, 1)

AnyAwait(nodes, i) ==
    IF i > Len(nodes) THEN FALSE
    ELSE IF HasAwait(nodes[i]) THEN TRUE
    ELSE AnyAwait(nodes, i + 1)

RECURSIVE SuspendOutsideFunction(_)
RECURSIVE AnySuspend(_, _)
\* the compiler's own SyntaxErrors for the trees of this grammar: an await
\* anywhere, a yield or yield from outside a function body (a lambda body
\* may yield; its defaults are evaluated outside it)
SuspendOutsideFunction(node) ==
    IF node.t \in {"Yield", "YieldFrom", "Await"} THEN TRUE
    ELSE IF node.t = "Lambda"
    THEN SuspendOutsideFunction(node.kids[1]) \/ HasAwait(node.kids[2])
    ELSE AnySuspend(node.kids, 1)

AnySuspend(nodes, i) ==
    IF i > Len(nodes) THEN FALSE
    ELSE IF SuspendOutsideFunction(nodes[i]) THEN TRUE
    ELSE AnySuspend(nodes, i + 1)

\* the value of the variable cobj before the compile step
NoCode == [code |-> NoTree, filename |-> "", mode |-> ""]

\* compile(tree, '<ast>', 'eval'): [ok, cobj]; ok is FALSE for a SyntaxError
Compile(t) ==
    IF SuspendOutsideFunction(t) THEN [ok |-> FALSE, cobj |-> NoCode]
    ELSE [ok |-> TRUE, cobj |-> [code |-> t, filename |-> "<ast>", mode |-> "eval"]]

---------------------------------------------------------------------------
(* Values of the eval step.  A value is [k, n, d, s, items]: its kind, a    *)
(* number n/d (d = 1 for an int or bool), a string, and the items of a      *)
(* container.  A float is kept as the exact fraction n/d.                   *)

V(k, n, d, s, items) == [k |-> k, n |-> n, d |-> d, s |-> s, items |-> items]
VInt(n) == V("int", n, 1, "", <<>>)
VBool(b) == V("bool", IF b THEN 1 ELSE 0, 1, "", <<>>)
VStr(s) == V("str", 0, 1, s, <<>>)
VNone == V("none", 0, 1, "", <<>>)
VSeq(k, items) == V(k, 0, 1, "", items)
\* an object known by name only: a builtin, the math module, a math function
VObj(k, name) == V(k, 0, 1, name, <<>>)
\* an object this model keeps no value for
VOpaque(what) == V("opaque", 0, 1, what, <<>>)

Abs(n) == IF n < 0 THEN -n ELSE n

RECURSIVE Gcd(_, _)
Gcd(a, b) == IF b = 0 THEN a ELSE Gcd(b, a % b)

\* the float n/d in lowest terms, d > 0
VFloat(n, d) ==
    LET g == Gcd(Abs(n), Abs(d))
        sgn == IF d < 0 THEN -1 ELSE 1
    IN  V("float", sgn * (n \div g), sgn * (d \div g), "", <<>>)

IsNumber(v) == v.k \in {"int", "bool", "float"}
IsContainer(v) == v.k \in {"tuple", "list", "set", "dict"}

RECURSIVE Pow(_, _)
Pow(b, e) == IF e = 0 THEN 1 ELSE b * Pow(b, e - 1)

RECURSIVE DigitsValue(_, _, _)
\* int() of a string of decimal digits
DigitsValue(s, i, acc) ==
    IF i > Len(s) THEN acc
    ELSE DigitsValue(s, i + 1, 10 * acc + (IndexOf(DIGITS, Ch(s, i)) - 1))

\* the value of a Constant node from its source text
ConstValue(s) ==
    IF s = "None" THEN VNone
    ELSE IF s = "True" THEN VBool(TRUE)
    ELSE IF s = "False" THEN VBool(FALSE)
    ELSE IF Ch(s, 1) = "'" THEN VStr(SubSeq(s, 2, Len(s) - 1))
    ELSE VInt(DigitsValue(s, 1, 0))

\* bool(v)
Truthy(v) ==
    IF IsNumber(v) THEN v.n # 0
    ELSE IF v.k = "str" THEN v.s # ""
    ELSE IF IsContainer(v) THEN v.items # <<>>
    ELSE v.k # "none"

RECURSIVE RepeatStr(_, _)
RepeatStr(s, n) == IF n <= 0 THEN "" ELSE s \o RepeatStr(s, n - 1)

RECURSIVE CharItems(_, _)
\* the one-character strings a str iterates over
CharItems(s, i) ==
    IF i > Len(s) THEN <<>> ELSE <<VStr(Ch(s, i))>> \o CharItems(s, i + 1)

\* the outcome of an evaluation: the exception class raised ("" for none),
\* the value, and the name loads and calls that ran, in order
ER(exc, val, trace) == [exc |-> exc, val |-> val, trace |-> trace]
Ok(val, trace) == ER("", val, trace)
Err(exc, trace) == ER(exc, VNone, trace)

\* left op right on numbers
NumBinOp(op, l, r, tr) ==
    LET isf == l.k = "float" \/ r.k = "float"
        num(n, d) == IF isf THEN VFloat(n, d) ELSE VInt(n \div d)
    IN  IF op = "+" THEN Ok(num(l.n * r.d + r.n * l.d, l.d * r.d), tr)
        ELSE IF op = "-" THEN Ok(num(l.n * r.d - r.n * l.d, l.d * r.d), tr)
        ELSE IF op = "*" THEN Ok(num(l.n * r.n, l.d * r.d), tr)
        ELSE IF r.n = 0 /\ op \in {"/", "//", "%"} THEN Err("ZeroDivisionError", tr)
        ELSE IF op = "/" THEN Ok(VFloat(l.n * r.d, l.d * r.n), tr)
        ELSE IF op \in {"//", "%"}
        THEN LET a == l.n * r.d
                 b == r.n * l.d
                 q == IF b > 0 THEN a \div b ELSE (-a) \div (-b)
             IN  IF op = "//"
                 THEN Ok(IF isf THEN VFloat(q, 1) ELSE VInt(q), tr)
                 ELSE Ok(num(a - q * b, l.d * r.d), tr)
        ELSE IF op = "**"
        THEN IF r.d # 1 THEN Ok(VOpaque("float"), tr)
             ELSE IF r.n >= 0
             THEN Ok(num(Pow(l.n, r.n), Pow(l.d, r.n)), tr)
             ELSE IF l.n = 0 THEN Err("ZeroDivisionError", tr)
             ELSE Ok(VFloat(Pow(l.d, -r.n), Pow(l.n, -r.n)), tr)
        ELSE Err("TypeError", tr)

\* left op right
BinOp(op, l, r, tr) ==
    IF IsNumber(l) /\ IsNumber(r) THEN NumBinOp(op, l, r, tr)
    ELSE IF l.k = "opaque" \/ r.k = "opaque" THEN Ok(VOpaque("binop"), tr)
    ELSE IF op = "+" /\ l.k = "str" /\ r.k = "str" THEN Ok(VStr(l.s \o r.s), tr)
    ELSE IF op = "+" /\ l.k = r.k /\ l.k \in {"list", "tuple"}
    THEN Ok(VSeq(l.k, l.items \o r.items), tr)
    ELSE IF op = "*" /\ l.k = "str" /\ r.k \in {"int", "bool"}
    THEN Ok(VStr(RepeatStr(l.s, r.n)), tr)
    ELSE IF op = "*" /\ r.k = "str" /\ l.k \in {"int", "bool"}
    THEN Ok(VStr(RepeatStr(r.s, l.n)), tr)
    ELSE Err("TypeError", tr)

\* left op right for one comparison operator
CompareOp(op, l, r, tr) ==
    LET lt == l.n * r.d < r.n * l.d
        eq == IF IsNumber(l) /\ IsNumber(r) THEN l.n * r.d = r.n * l.d
              ELSE l.k = r.k /\ l = r
    IN  IF op = "==" THEN Ok(VBool(eq), tr)
        ELSE IF op = "!=" THEN Ok(VBool(~eq), tr)
        ELSE IF op \in {"is", "isnot", "in", "notin"} \/ l.k = "opaque" \/ r.k = "opaque"
        THEN Ok(VOpaque("bool"), tr)
        ELSE IF ~(IsNumber(l) /\ IsNumber(r))
        THEN IF l.k = r.k /\ l.k \in {"str", "list", "tuple"} THEN Ok(VOpaque("bool"), tr)
             ELSE Err("TypeError", tr)
        ELSE IF op = "<" THEN Ok(VBool(lt), tr)
        ELSE IF op = "<=" THEN Ok(VBool(lt \/ eq), tr)
        ELSE IF op = ">" THEN Ok(VBool(~lt /\ ~eq), tr)
        ELSE Ok(VBool(~lt), tr)

---------------------------------------------------------------------------
(* eval(cobj, {'math': math}, None) *)

\* eval() given the caller's globals as well
EvalGlobalsOfCaller(callerNames) == {"math"} \cup callerNames

\* the globals dict passed to eval(): {'math': math}, whatever the caller binds
EvalGlobals(callerNames) == {"math"}

\* the names of the builtins module, which eval() adds to a globals dict
\* that has no __builtins__ key
BUILTINS ==
    {"abs", "aiter", "all", "anext", "any", "ascii", "bin", "bool",
     "breakpoint", "bytearray", "bytes", "callable", "chr", "classmethod",
     "compile", "complex", "copyright", "credits", "delattr", "dict", "dir",
     "divmod", "enumerate", "eval", "exec", "exit", "filter", "float",
     "format", "frozenset", "getattr", "globals", "hasattr", "hash", "help",
     "hex", "id", "input", "int", "isinstance", "issubclass", "iter", "len",
     "license", "list", "locals", "map", "max", "memoryview", "min", "next",
     "object", "oct", "open", "ord", "pow", "print", "property", "quit",
     "range", "repr", "reversed", "round", "set", "setattr", "slice",
     "sorted", "staticmethod", "str", "sum", "super", "tuple", "type",
     "vars", "zip"}

\* the functions and the constants of the math module
MATH_FUNCS ==
    {"acos", "asin", "atan", "ceil", "cos", "exp", "fabs", "factorial",
     "floor", "fsum", "gcd", "log", "log10", "log2", "pow", "sin", "sqrt",
     "tan", "trunc"}
MATH_CONSTS == {"e", "inf", "nan", "pi", "tau"}

RECURSIVE Lookup(_, _, _)
\* the innermost binding of name in env (comprehension variables), from
\* position i down; [found, val]
Lookup(env, name, i) ==
    IF i = 0 THEN [found |-> FALSE, val |-> VNone]
    ELSE IF env[i].name = name THEN [found |-> TRUE, val |-> env[i].val]
    ELSE Lookup(env, name, i - 1)

\* LOAD_NAME: the comprehension's own variables, then the globals dict,
\* then the builtins; NameError when none binds the name
Resolve(name, env, callerNames) ==
    LET tr == <<"LOAD_NAME " \o name>>
        loc == Lookup(env, name, Len(env))
    IN  IF loc.found THEN Ok(loc.val, tr)
        ELSE IF name \in EvalGlobals(callerNames)
        THEN Ok(IF name = "math" THEN VObj("module", "math")
                ELSE VOpaque(name), tr)
        ELSE IF name \in BUILTINS THEN Ok(VObj("builtin", name), tr)
        ELSE Err("NameError", tr)

\* getattr(v, attr)
GetAttr(v, attr, tr) ==
    IF v.k = "module"
    THEN IF attr \in MATH_FUNCS THEN Ok(VObj("mathfn", attr), tr)
         ELSE IF attr \in MATH_CONSTS THEN Ok(VOpaque("float"), tr)
         ELSE IF Contains(attr, "__") THEN Ok(VOpaque(attr), tr)
         ELSE Err("AttributeError", tr)
    ELSE IF v.k = "opaque" \/ Contains(attr, "__") THEN Ok(VOpaque(attr), tr)
    ELSE Err("AttributeError", tr)

RECURSIVE SetItems(_)
\* the items of a set built from xs: each value once, in first-seen order
SetItems(xs) ==
    IF xs = <<>> THEN <<>>
    ELSE LET init == SetItems(SubSeq(xs, 1, Len(xs) - 1))
             x == xs[Len(xs)]
         IN  IF \E i \in 1..Len(init) : init[i] = x THEN init ELSE Append(init, x)

RECURSIVE DictItems(_)
\* the items k1, v1, k2, v2, ... of a dict built from the pairs kvs in
\* order: a key set again keeps its place and takes the later value
DictItems(kvs) ==
    IF kvs = <<>> THEN <<>>
    ELSE LET init == DictItems(SubSeq(kvs, 1, Len(kvs) - 2))
             k == kvs[Len(kvs) - 1]
             v == kvs[Len(kvs)]
             at == {i \in 1..(Len(init) \div 2) : init[2 * i - 1] = k}
         IN  IF at = {} THEN init \o <<k, v>>
             ELSE [init EXCEPT ![2 * (CHOOSE i \in at : TRUE)] = v]

\* len(v)
BuiltinLen(args, tr) ==
    IF Len(args) # 1 THEN Err("TypeError", tr)
    ELSE IF args[1].k = "str" THEN Ok(VInt(Len(args[1].s)), tr)
    ELSE IF args[1].k = "dict" THEN Ok(VInt(Len(args[1].items) \div 2), tr)
    ELSE IF IsContainer(args[1]) THEN Ok(VInt(Len(args[1].items)), tr)
    ELSE IF args[1].k = "opaque" THEN Ok(VOpaque("int"), tr)
    ELSE Err("TypeError", tr)

\* math.<fn>(*args)
MathCall(fn, args, tr) ==
    IF \E i \in 1..Len(args) : ~IsNumber(args[i]) /\ args[i].k # "opaque"
    THEN Err("TypeError", tr)
    ELSE IF \E i \in 1..Len(args) : args[i].k = "opaque" THEN Ok(VOpaque("float"), tr)
    ELSE IF fn = "pow"
    THEN IF Len(args) # 2 THEN Err("TypeError", tr)
         ELSE LET r == NumBinOp("**", VFloat(args[1].n, args[1].d), args[2], tr)
              IN  IF r.exc = "ZeroDivisionError" THEN Err("ValueError", tr) ELSE r
    ELSE IF Len(args) = 0 THEN Err("TypeError", tr)
    ELSE IF fn = "fabs" /\ Len(args) = 1
    THEN Ok(VFloat(Abs(args[1].n), args[1].d), tr)
    ELSE IF fn \in {"floor", "trunc"} /\ Len(args) = 1 /\ args[1].d = 1
    THEN Ok(VInt(args[1].n), tr)
    ELSE Ok(VOpaque("float"), tr)

\* abs(*args)
BuiltinAbs(args, tr) ==
    IF Len(args) # 1 THEN Err("TypeError", tr)
    ELSE IF args[1].k = "opaque" THEN Ok(VOpaque("number"), tr)
    ELSE IF ~IsNumber(args[1]) THEN Err("TypeError", tr)
    ELSE Ok([args[1] EXCEPT !.n = Abs(args[1].n),
                            !.k = IF @ = "bool" THEN "int" ELSE @], tr)

\* vars(*args): the namespace of the expression, or the __dict__ of a module
BuiltinVars(args, tr) ==
    IF Len(args) = 0 THEN Ok(VOpaque("globals"), tr)
    ELSE IF Len(args) = 1 /\ args[1].k \in {"module", "opaque"} THEN Ok(VOpaque("__dict__"), tr)
    ELSE Err("TypeError", tr)

\* a builtin called with the positional arguments args and nkw keyword
\* arguments; the builtins without a case here return an object this model
\* keeps no value for
CallBuiltin(name, args, nkw, tr) ==
    CASE name \in {"len", "abs", "vars", "memoryview"} /\ nkw > 0 -> Err("TypeError", tr)
      [] name = "len" /\ nkw = 0 -> BuiltinLen(args, tr)
      [] name = "abs" /\ nkw = 0 -> BuiltinAbs(args, tr)
      [] name = "vars" /\ nkw = 0 -> BuiltinVars(args, tr)
      [] name = "memoryview" /\ nkw = 0 ->
            \* no value of this model has the buffer interface
            IF Len(args) = 1 /\ args[1].k = "opaque" THEN Ok(VOpaque("memoryview"), tr)
            ELSE Err("TypeError", tr)
      [] name \in {"exit", "quit"} -> Err("SystemExit", tr)
      [] OTHER -> Ok(VOpaque(name \o "()"), tr)

\* f(*args, **kwargs) with nkw keyword arguments, their values last in
\* args: the call is logged before it runs
Apply(f, args, nkw, tr) ==
    CASE f.k = "builtin" ->
            CallBuiltin(f.s, SubSeq(args, 1, Len(args) - nkw), nkw, Append(tr, "CALL " \o f.s))
      [] f.k = "mathfn" ->
            IF nkw > 0 THEN Err("TypeError", Append(tr, "CALL math." \o f.s))
            ELSE MathCall(f.s, args, Append(tr, "CALL math." \o f.s))
      [] f.k = "opaque" -> Ok(VOpaque("()"), Append(tr, "CALL " \o f.s))
      [] OTHER -> Err("TypeError", tr)

\* iter(v): [ok, items]
ItemsOf(v) ==
    IF v.k = "str" THEN [ok |-> TRUE, items |-> CharItems(v.s, 1)]
    ELSE IF v.k \in {"tuple", "list", "set"} THEN [ok |-> TRUE, items |-> v.items]
    ELSE IF v.k = "dict"
    THEN [ok |-> TRUE, items |-> [i \in 1..(Len(v.items) \div 2) |-> v.items[2 * i - 1]]]
    ELSE IF v.k = "opaque" THEN [ok |-> TRUE, items |-> <<>>]
    ELSE [ok |-> FALSE, items |-> <<>>]

\* the bindings a for clause adds for one item: a name, or a tuple of names
\* unpacked from a sequence of that length; [ok, env]
Bind(target, item, env) ==
    IF target.t = "Name"
    THEN [ok |-> TRUE, env |-> Append(env, [name |-> target.s, val |-> item])]
    ELSE IF item.k \in {"tuple", "list"} /\ Len(item.items) = Len(target.kids)
    THEN [ok |-> TRUE,
          env |-> env \o [i \in 1..Len(target.kids) |->
                             [name |-> target.kids[i].s, val |-> item.items[i]]]]
    ELSE [ok |-> FALSE, env |-> env]

RECURSIVE Eval(_, _, _)
RECURSIVE EvalSeq(_, _, _, _, _, _)
RECURSIVE EvalBool(_, _, _, _, _, _)
RECURSIVE EvalCompare(_, _, _, _, _, _)
RECURSIVE EvalGen(_, _, _, _, _, _)
RECURSIVE EvalLoop(_, _, _, _, _, _, _, _)
RECURSIVE EvalIfs(_, _, _, _, _)

\* the values of nodes[i..], in order, appended to acc; val is a tuple
EvalSeq(nodes, i, env, cn, acc, tr) ==
    IF i > Len(nodes) THEN Ok(VSeq("tuple", acc), tr)
    ELSE LET r == Eval(nodes[i], env, cn)
         IN  IF r.exc # "" THEN Err(r.exc, tr \o r.trace)
             ELSE EvalSeq(nodes, i + 1, env, cn, Append(acc, r.val), tr \o r.trace)

\* a BoolOp from operand i on: the first operand that decides it, else the last
EvalBool(op, nodes, i, env, cn, tr) ==
    LET r == Eval(nodes[i], env, cn)
    IN  IF r.exc # "" THEN Err(r.exc, tr \o r.trace)
        ELSE IF i = Len(nodes) \/ (op = "or") = Truthy(r.val)
        THEN Ok(r.val, tr \o r.trace)
        ELSE EvalBool(op, nodes, i + 1, env, cn, tr \o r.trace)

\* a comparison chain from its i-th operator on, left being the value of
\* its left operand; kids = <<first>> \o operators \o operands
EvalCompare(kids, i, left, env, cn, tr) ==
    LET n == (Len(kids) - 1) \div 2
        r == Eval(kids[1 + n + i], env, cn)
        c == CompareOp(kids[1 + i].s, left, r.val, tr \o r.trace)
    IN  IF r.exc # "" THEN Err(r.exc, tr \o r.trace)
        ELSE IF c.exc # "" \/ i = n \/ ~Truthy(c.val) THEN c
        ELSE EvalCompare(kids, i + 1, r.val, env, cn, c.trace)

\* the conditions ifs[i..] of a for clause: val is whether all hold
EvalIfs(ifs, i, env, cn, tr) ==
    IF i > Len(ifs) THEN Ok(VBool(TRUE), tr)
    ELSE LET r == Eval(ifs[i], env, cn)
         IN  IF r.exc # "" THEN Err(r.exc, tr \o r.trace)
             ELSE IF ~Truthy(r.val) THEN Ok(VBool(FALSE), tr \o r.trace)
             ELSE EvalIfs(ifs, i + 1, env, cn, tr \o r.trace)

\* the for clause gens[g] of a comprehension and those after it: val holds
\* acc and the elements they add (elts are the element expressions: one, or
\* the key and the value of a dict comprehension)
EvalGen(elts, gens, g, env, cn, acc) ==
    IF g > Len(gens)
    THEN LET r == EvalSeq(elts, 1, env, cn, <<>>, <<>>)
         IN  IF r.exc # "" THEN r
             ELSE Ok(VSeq("list", acc.items \o r.val.items), r.trace)
    ELSE LET it == Eval(gens[g].kids[2], env, cn)
             xs == ItemsOf(it.val)
         IN  IF it.exc # "" THEN it
             ELSE IF ~xs.ok THEN Err("TypeError", it.trace)
             ELSE EvalLoop(elts, gens, g, xs.items, 1, env, cn,
                           Ok(acc, it.trace))

\* the iterations j.. of the for clause gens[g] over items; sofar holds the
\* elements and the trace up to here
EvalLoop(elts, gens, g, items, j, env, cn, sofar) ==
    IF j > Len(items) THEN sofar
    ELSE
    LET b == Bind(gens[g].kids[1], items[j], env)
        c == EvalIfs(SubSeq(gens[g].kids, 3, Len(gens[g].kids)), 1, b.env, cn, <<>>)
        r == IF Truthy(c.val) THEN EvalGen(elts, gens, g + 1, b.env, cn, sofar.val)
             ELSE Ok(sofar.val, <<>>)
    IN  IF ~b.ok THEN Err("TypeError", sofar.trace)
        ELSE IF c.exc # "" THEN Err(c.exc, sofar.trace \o c.trace)
        ELSE IF r.exc # "" THEN Err(r.exc, sofar.trace \o c.trace \o r.trace)
        ELSE EvalLoop(elts, gens, g, items, j + 1, env, cn,
                      Ok(r.val, sofar.trace \o c.trace \o r.trace))

\* the evaluation of one node with the comprehension variables env; cn are
\* the names bound in the scope of evaluate()'s caller
Eval(node, env, cn) ==
    LET t == node.t
        kids == node.kids
    IN  CASE t = "Expression" -> Eval(kids[1], env, cn)
          [] t = "Constant" -> Ok(ConstValue(node.s), <<>>)
          [] t = "Name" -> Resolve(node.s, env, cn)
          [] t = "Attribute" ->
             LET v == Eval(kids[1], env, cn)
             IN  IF v.exc # "" THEN v ELSE GetAttr(v.val, node.s, v.trace)
          [] t = "Call" ->
             LET f == Eval(kids[1], env, cn)
                 a == EvalSeq(kids, 2, env, cn, <<>>, f.trace)
             IN  IF f.exc # "" THEN f
                 ELSE IF a.exc # "" THEN a
                 ELSE Apply(f.val, a.val.items,
                            Len(SelectSeq(kids, LAMBDA x : x.t = "keyword")), a.trace)
          [] t = "keyword" -> Eval(kids[1], env, cn)
          [] t = "BinOp" ->
             LET a == EvalSeq(kids, 1, env, cn, <<>>, <<>>)
             IN  IF a.exc # "" THEN a
                 ELSE BinOp(node.s, a.val.items[1], a.val.items[2], a.trace)
          [] t = "UnaryOp" ->
             LET v == Eval(kids[1], env, cn)
             IN  IF v.exc # "" THEN v
                 ELSE IF node.s = "not" THEN Ok(VBool(~Truthy(v.val)), v.trace)
                 ELSE IF v.val.k = "opaque" THEN v
                 ELSE IF ~IsNumber(v.val) THEN Err("TypeError", v.trace)
                 ELSE IF node.s = "-"
                 THEN Ok([v.val EXCEPT !.n = -@,
                                       !.k = IF @ = "bool" THEN "int" ELSE @], v.trace)
                 ELSE Ok([v.val EXCEPT !.k = IF @ = "bool" THEN "int" ELSE @], v.trace)
          [] t = "BoolOp" -> EvalBool(node.s, kids, 1, env, cn, <<>>)
          [] t = "Compare" ->
             LET l == Eval(kids[1], env, cn)
             IN  IF l.exc # "" THEN l
                 ELSE EvalCompare(kids, 1, l.val, env, cn, l.trace)
          [] t = "IfExp" ->
             LET c == Eval(kids[1], env, cn)
                 r == Eval(IF Truthy(c.val) THEN kids[2] ELSE kids[3], env, cn)
             IN  IF c.exc # "" THEN c ELSE ER(r.exc, r.val, c.trace \o r.trace)
          [] t \in {"Tuple", "List"} ->
             LET a == EvalSeq(kids, 1, env, cn, <<>>, <<>>)
             IN  IF a.exc # "" THEN a
                 ELSE Ok(VSeq(IF t = "Tuple" THEN "tuple" ELSE "list", a.val.items),
                         a.trace)
          [] t = "Set" ->
             LET a == EvalSeq(kids, 1, env, cn, <<>>, <<>>)
             IN  IF a.exc # "" THEN a ELSE Ok(VSeq("set", SetItems(a.val.items)), a.trace)
          [] t = "Dict" ->
             \* kids are the keys, then the values; each key runs before its value
             LET n == Len(kids) \div 2
                 kv == [i \in 1..(2 * n) |->
                           IF i % 2 = 1 THEN kids[(i + 1) \div 2] ELSE kids[n + i \div 2]]
                 a == EvalSeq(kv, 1, env, cn, <<>>, <<>>)
             IN  IF a.exc # "" THEN a ELSE Ok(VSeq("dict", DictItems(a.val.items)), a.trace)
          [] t = "Subscript" ->
             LET a == EvalSeq(kids, 1, env, cn, <<>>, <<>>)
                 c == a.val.items[1]
                 i == a.val.items[2]
                 xs == IF c.k = "str" THEN CharItems(c.s, 1) ELSE c.items
                 at == IF i.n < 0 THEN Len(xs) + i.n + 1 ELSE i.n + 1
             IN  IF a.exc # "" THEN a
                 ELSE IF c.k = "opaque" \/ c.k = "dict" THEN Ok(VOpaque("[]"), a.trace)
                 ELSE IF c.k \notin {"str", "tuple", "list"} \/ i.k \notin {"int", "bool"}
                 THEN Err("TypeError", a.trace)
                 ELSE IF at < 1 \/ at > Len(xs) THEN Err("IndexError", a.trace)
                 ELSE Ok(xs[at], a.trace)
          [] t \in {"ListComp", "SetComp", "DictComp"} ->
             LET ne == IF t = "DictComp" THEN 2 ELSE 1
                 r == EvalGen(SubSeq(kids, 1, ne), SubSeq(kids, ne + 1, Len(kids)), 1,
                              env, cn, VSeq("list", <<>>))
             IN  IF r.exc # "" THEN r
                 ELSE IF t = "ListComp" THEN r
                 ELSE IF t = "SetComp" THEN Ok(VSeq("set", SetItems(r.val.items)), r.trace)
                 ELSE Ok(VSeq("dict", DictItems(r.val.items)), r.trace)
          [] t = "GeneratorExp" ->
             \* only the first iterable is evaluated when the generator is made
             LET it == Eval(kids[2].kids[2], env, cn)
             IN  IF it.exc # "" THEN it
                 ELSE IF ~ItemsOf(it.val).ok THEN Err("TypeError", it.trace)
                 ELSE Ok(VOpaque("generator"), it.trace)
          [] t = "Lambda" ->
             \* the defaults are evaluated when the function is made
             LET a == kids[1].kids
                 d == EvalSeq(SelectSeq(a, LAMBDA x : x.t # "arg"), 1, env, cn, <<>>, <<>>)
             IN  IF d.exc # "" THEN d ELSE Ok(VOpaque("<lambda>"), d.trace)
          [] t = "NamedExpr" -> Eval(kids[2], env, cn)
          [] OTHER -> Err("SystemError", <<>>)

---------------------------------------------------------------------------
(* evaluate(exp), statement by statement *)

\* '__' looked for at the start of exp only: exp.startswith('__')
HasDunderAtStart(e) == Len(e) >= 2 /\ SubSeq(e, 1, 2) = "__"

\* the test of the first statement of evaluate(): '__' in exp
HasDunder(e) == Contains(e, "__")

\* evaluate() without its SafeNodeCheck().visit(tree) statement
StepAfterNoWalk(step) ==
    IF step = "dunder" THEN "parse"
    ELSE IF step = "parse" THEN "compile"
    ELSE IF step = "compile" THEN "eval"
    ELSE "done"

\* the statement that runs after each statement of evaluate() when it
\* does not raise
StepAfter(step) ==
    IF step = "dunder" THEN "parse"
    ELSE IF step = "parse" THEN "walk"
    ELSE IF step = "walk" THEN "compile"
    ELSE IF step = "compile" THEN "eval"
    ELSE "done"

Running == [st |-> "running", exc |-> "", val |-> VNone]
Raised(exc) == [st |-> "raised", exc |-> exc, val |-> VNone]
Returned(val) == [st |-> "returned", exc |-> "", val |-> val]

\* if '__' in exp: raise SyntaxError('Invalid expression', ...)
DunderCheck ==
    /\ pc = "dunder"
    /\ steps' = Append(steps, "dunder")
    /\ IF HasDunder(exp)
       THEN pc' = "done" /\ result' = Raised("SyntaxError")
       ELSE pc' = StepAfter("dunder") /\ result' = result
    /\ UNCHANGED <<exp, caller, tree, cobj, executed>>
    /\ UNCHANGED notEvaluateVars

\* tree = ast.parse(exp, mode='eval')
ParseStep ==
    /\ pc = "parse"
    /\ steps' = Append(steps, "parse")
    /\ LET r == Parse(exp)
       IN  IF r.ok
           THEN pc' = StepAfter("parse") /\ tree' = r.node /\ result' = result
           ELSE pc' = "done" /\ tree' = tree /\ result' = Raised("SyntaxError")
    /\ UNCHANGED <<exp, caller, cobj, executed>>
    /\ UNCHANGED notEvaluateVars

\* SafeNodeCheck().visit(tree)
WalkStep ==
    /\ pc = "walk"
    /\ steps' = Append(steps, "walk")
    /\ LET r == SafeNodeCheck(tree)
       IN  IF r = ""
           THEN pc' = StepAfter("walk") /\ result' = result
           ELSE pc' = "done" /\ result' = Raised(r)
    /\ UNCHANGED <<exp, caller, tree, cobj, executed>>
    /\ UNCHANGED notEvaluateVars

\* ast.fix_missing_locations(tree); cobj = compile(tree, '<ast>', 'eval')
CompileStep ==
    /\ pc = "compile"
    /\ steps' = Append(steps, "compile")
    /\ LET r == Compile(tree)
       IN  IF r.ok
           THEN pc' = StepAfter("compile") /\ cobj' = r.cobj /\ result' = result
           ELSE pc' = "done" /\ cobj' = cobj /\ result' = Raised("SyntaxError")
    /\ UNCHANGED <<exp, caller, tree, executed>>
    /\ UNCHANGED notEvaluateVars

\* return eval(cobj, {'math': math}, None)
EvalStep ==
    /\ pc = "eval"
    /\ steps' = Append(steps, "eval")
    /\ LET r == Eval(cobj.code, <<>>, caller)
       IN  /\ executed' = r.trace
           /\ result' = IF r.exc = "" THEN Returned(r.val) ELSE Raised(r.exc)
    /\ pc' = StepAfter("eval")
    /\ UNCHANGED <<exp, caller, tree, cobj>>
    /\ UNCHANGED notEvaluateVars

---------------------------------------------------------------------------
(* evaluate(exp) as one call *)

\* cobj = compile(...); return eval(cobj, {'math': math}, None)
evaluateCompiled(c, callerNames) ==
    IF c.ok THEN Eval(c.cobj.code, <<>>, callerNames) ELSE Err("SyntaxError", <<>>)

\* SafeNodeCheck().visit(tree), w its outcome, then the compile and the eval
evaluateWalked(t, w, callerNames) ==
    IF w # "" THEN Err(w, <<>>) ELSE evaluateCompiled(Compile(t), callerNames)

\* tree = ast.parse(exp, mode='eval'), p its outcome, then the walk
evaluateParsed(p, callerNames) ==
    IF ~p.ok THEN Err("SyntaxError", <<>>)
    ELSE evaluateWalked(p.node, SafeNodeCheck(p.node), callerNames)

\* evaluate(exp): the exception class raised ("" for none), the value
\* returned and what the eval step ran
evaluate(e, callerNames) ==
    IF HasDunder(e) THEN Err("SyntaxError", <<>>)
    ELSE evaluateParsed(Parse(e), callerNames)

---------------------------------------------------------------------------
(* DataField.compute (vmtreport/common.py, vmtreport/__init__.py) *)

\* a character of the class [\$\w] of r_var
IsVarChar(c) == c = "$" \/ IsIdChar(c)

RECURSIVE RunEnd(_, _, _)
\* the index after the run of characters that starts at i, all in [\$\w]
\* (var) or all outside it
RunEnd(s, i, var) ==
    IF i <= Len(s) /\ IsVarChar(Ch(s, i)) = var THEN RunEnd(s, i + 1, var) ELSE i

RECURSIVE SplitFrom(_, _)
\* [i for i in re.split(r_var, self.value) if i]: the matches of r_var and
\* the text between them, in order, without the empty strings
SplitFrom(s, i) ==
    IF i > Len(s) THEN <<>>
    ELSE <<SubSeq(s, i, RunEnd(s, i, IsVarChar(Ch(s, i))) - 1)>>
         \o SplitFrom(s, RunEnd(s, i, IsVarChar(Ch(s, i))))

ReSplit(s) == SplitFrom(s, 1)

\* s[i:i+len(sub)] == sub
StartsAt(s, sub, i) ==
    i + Len(sub) - 1 <= Len(s) /\ SubSeq(s, i, i + Len(sub) - 1) = sub

RECURSIVE ReplaceFrom(_, _, _, _)
\* str.replace from index i on: every occurrence of old, left to right and
\* without overlap, becomes new (old is never empty here)
ReplaceFrom(s, old, new, i) ==
    IF i > Len(s) THEN ""
    ELSE IF StartsAt(s, old, i) THEN new \o ReplaceFrom(s, old, new, i + Len(old))
    ELSE Ch(s, i) \o ReplaceFrom(s, old, new, i + 1)

\* _str.replace(old, new)
Replace(s, old, new) == ReplaceFrom(s, old, new, 1)

RECURSIVE NatStr(_)
\* str() of an int >= 0
NatStr(n) ==
    IF n < 10 THEN Ch(DIGITS, n + 1) ELSE NatStr(n \div 10) \o Ch(DIGITS, (n % 10) + 1)

\* str() of an int
IntStr(n) == IF n < 0 THEN "-" \o NatStr(-n) ELSE NatStr(n)

RECURSIVE FracStr(_, _)
\* the decimal places of the fraction n/d, 0 <= n < d, while it terminates
FracStr(n, d) ==
    IF n = 0 THEN ""
    ELSE Ch(DIGITS, ((10 * n) \div d) + 1) \o FracStr((10 * n) % d, d)

\* the prime factors of d are 2 and 5 only: n/d has a finite decimal expansion
RECURSIVE IsDecimal(_)
IsDecimal(d) ==
    IF d % 2 = 0 THEN IsDecimal(d \div 2)
    ELSE IF d % 5 = 0 THEN IsDecimal(d \div 5)
    ELSE d = 1

\* str() of a float n/d: repr gives the shortest decimal text that reads
\* back as the float, which for a short finite expansion is the expansion
FloatStr(n, d) ==
    IF ~IsDecimal(d) THEN "<float>"
    ELSE (IF n < 0 THEN "-" ELSE "") \o NatStr(Abs(n) \div d) \o "."
         \o (IF Abs(n) % d = 0 THEN "0" ELSE FracStr(Abs(n) % d, d))

\* str(v) of a row value
Str(v) ==
    IF v.k = "int" THEN IntStr(v.n)
    ELSE IF v.k = "bool" THEN (IF v.n = 1 THEN "True" ELSE "False")
    ELSE IF v.k = "float" THEN FloatStr(v.n, v.d)
    ELSE IF v.k = "str" THEN v.s
    ELSE IF v.k = "none" THEN "None"
    ELSE "<" \o v.k \o ">"

\* token[1:]
Key(token) == SubSeq(token, 2, Len(token))

RECURSIVE SubstituteSkipMissing(_, _, _, _)
\* the loop with data.get(token[1:], token) for data[token[1:]]: a token
\* whose id the row lacks is left as it is
SubstituteSkipMissing(tokens, i, str, row) ==
    IF i > Len(tokens) THEN [exc |-> "", str |-> str]
    ELSE IF Ch(tokens[i], 1) # "$" \/ Key(tokens[i]) \notin DOMAIN row
    THEN SubstituteSkipMissing(tokens, i + 1, str, row)
    ELSE SubstituteSkipMissing(tokens, i + 1,
                               Replace(str, tokens[i], Str(row[Key(tokens[i])])), row)

RECURSIVE SubstituteFrom(_, _, _, _)
\* for token in ...: if token[0] == '$':
\*     _str = _str.replace(token, str(data[token[1:]]))
\* from the i-th token on: [exc, str], exc = "KeyError" when the row lacks
\* the id of a token
SubstituteFrom(tokens, i, str, row) ==
    IF i > Len(tokens) THEN [exc |-> "", str |-> str]
    ELSE IF Ch(tokens[i], 1) # "$" THEN SubstituteFrom(tokens, i + 1, str, row)
    ELSE IF Key(tokens[i]) \notin DOMAIN row THEN [exc |-> "KeyError", str |-> str]
    ELSE SubstituteFrom(tokens, i + 1,
                        Replace(str, tokens[i], Str(row[Key(tokens[i])])), row)

\* _str after the loop of compute() over the tokens of self.value
Substitute(value, row) == SubstituteFrom(ReSplit(value), 1, value, row)

\* except clauses that catch every exception: except Exception: return None
ExceptAll(exc, val) ==
    IF exc = "" THEN Returned(val)
    ELSE IF exc = "ZeroDivisionError" THEN Returned(VInt(0))
    ELSE Returned(VNone)

\* the try statement of compute(): except ZeroDivisionError: return 0,
\* except KeyError: return None, anything else propagates
Except(exc, val) ==
    IF exc = "" THEN Returned(val)
    ELSE IF exc = "ZeroDivisionError" THEN Returned(VInt(0))
    ELSE IF exc = "KeyError" THEN Returned(VNone)
    ELSE Raised(exc)

\* return vu.evaluate(_str), r its outcome
computeEvaluated(r) == Except(r.exc, r.val)

\* the calls of vu.evaluate() compute() makes, s the outcome of its loop
computeCalls(s) == IF s.exc = "" THEN <<s.str>> ELSE <<>>

\* compute() after its loop, s the outcome of the loop
computeSubstituted(s) ==
    IF s.exc # "" THEN Except(s.exc, VNone)
    ELSE computeEvaluated(evaluate(s.str, {}))

\* DataField.compute(data) of a field whose value is the template
compute(value, row) == computeSubstituted(Substitute(value, row))

\* no call of compute() in progress
Idle == [st |-> "idle", exc |-> "", val |-> VNone]

\* f.compute(data): the whole call
Compute ==
    /\ outcome = Running
    /\ handed' = computeCalls(Substitute(field, data))
    /\ outcome' = compute(field, data)
    /\ UNCHANGED <<field, data>>
    /\ UNCHANGED notComputeVars

\* the state of the variables of compute() when no call of it is examined
ComputeIdle == field = "" /\ data = <<>> /\ handed = <<>> /\ outcome = Idle

\* the state of the variables of evaluate() when no call of it is examined
EvaluateIdle ==
    /\ exp = "" /\ caller = {} /\ pc = "done" /\ tree = NoTree /\ cobj = NoCode
    /\ result = Running /\ executed = <<>> /\ steps = <<>>

\* the state of the variables of multikeysort() when no call of it is examined
SortIdle == sortItems = <<>> /\ columns = <<>> /\ sorted = Idle

\* the state of the variables of GroupedDataReport when no report is examined
ReportIdle ==
    /\ config = <<>> /\ cache = <<>> /\ calls = <<>> /\ groupRow = <<>> /\ rows = <<>>
    /\ stage = [op |-> "idle", g |-> 0, k |-> 0] /\ log = <<>> /\ report = Idle

\* the state of the variables of tree_get() when no call of it is examined
TreeIdle == treeData = <<>> /\ treePath = "" /\ treeGot = Idle

\* the state of the variables of FilterSet when none is built
FilterIdle == filterConfig = <<>> /\ filterBase = <<>> /\ filterValues = Idle

\* the state of the variables of the unit casts when no call is examined
CastIdle == castArgs = <<>> /\ castResult = Idle

\* the state of the variables of ActionDataReport when no report is examined
ActionsIdle ==
    /\ options = <<>> /\ platform = <<>> /\ sets = <<>> /\ requests = <<>>
    /\ pager = <<>> /\ actions = <<>> /\ table = <<>> /\ point = [op |-> "idle", i |-> 0, k |-> 0]
    /\ ended = Idle

\* no call of the later sections is examined
LaterIdle == TreeIdle /\ FilterIdle /\ CastIdle /\ ActionsIdle

---------------------------------------------------------------------------
(* The calls of evaluate() that are examined *)

\* how many times the wrappers below are nested around a seed
MaxDepth == 2

UpperChar(c) ==
    IF IsLower(c) THEN Ch(UPPERCASE, IndexOf(LOWERCASE, c)) ELSE c

RECURSIVE UpperFrom(_, _)
UpperFrom(s, i) ==
    IF i > Len(s) THEN "" ELSE UpperChar(Ch(s, i)) \o UpperFrom(s, i + 1)

Upper(s) == UpperFrom(s, 1)
Capitalize(s) == UpperChar(Ch(s, 1)) \o SubSeq(s, 2, Len(s))

\* identifiers: the deny-list in three letter cases, builtins that are not
\* on it, names nothing binds, math, and names with a double underscore
Identifiers ==
    UNION {{n, Upper(n), Capitalize(n)} : n \in INVALID_NAMES}
    \cup {"vars", "VARS", "exit", "breakpoint", "memoryview", "len", "abs"}
    \cup {"os", "x", "math", "_"}
    \cup {"__import__", "a__b", "x__"}

\* the places an identifier n is used in
NameForms(n) ==
    {n, n \o "()", n \o "('hello')", n \o ".system('')", "len(" \o n \o ")",
     "1 + " \o n, "math." \o n, "'" \o n \o "'", "().__class__." \o n}

Seeds == {"1", "x", "'ab'"}

\* an expression with e inside it
Wrappers(e) ==
    {"(" \o e \o ")", "len(" \o e \o ")", "1 + (" \o e \o ")",
     "lambda x: " \o e, "(c for c in " \o e \o ")",
     "[c for c in " \o e \o "]", "{c for c in " \o e \o "}",
     "{c: 1 for c in " \o e \o "}",
     "await " \o e, "(yield " \o e \o ")", "(yield from " \o e \o ")",
     "(y := " \o e \o ")"}

RECURSIVE Nested(_)
\* the seeds wrapped at most d times
Nested(d) ==
    IF d = 0 THEN Seeds
    ELSE LET inner == Nested(d - 1) IN inner \cup UNION {Wrappers(e) : e \in inner}

\* inputs that are not a single expression
Statements ==
    {"a = 15", "a = b = 1", "x += 1", "import os", "import os\nos.systme('')",
     "from os import system", "for x in 100:\n\tx+5", "while 1: pass",
     "def f(): pass", "class A: pass", "del x", "pass", "return 1",
     "1\n2", "1; 2", "x; y", "len('a')\nlen('b')", "if 1: 2", "with x: pass",
     "assert x", "", " 1", "1 +", "(1", "1)", "x y", "lambda", "class",
     "x := 1", "yield 1"}

\* the escape by way of the base object class and a code object built by
\* hand, on one line
EscapePayload ==
    "(lambda fc=(lambda n: [c for c in ().__class__.__bases__[0].__subclasses__() if c.__name__ == n][0]): fc('function')(fc('code')(0,0,0,0,'KABOOM',(),(),(),'','',0,''),{})())()"

\* expressions the repository's tests and documentation evaluate, and
\* others that use each operator
Examples ==
    {"2 + 3 * len('hello')", "math.pow(2, 3)", "print('hello')",
     "os.system('')", "__import__('os').system('')", "lambda x: x + 1",
     "await True", "[x for x in (1,2)]", "vars()", "len(vars()) > 0",
     "1 / 0", "10 / 4", "7 // 2", "7 % 2", "2 ** 3", "-1", "not 1",
     "True or os", "0 or os", "1 and os", "1 if 0 else os", "os if 0 else 1",
     "1 < 2 <= 3", "1 == 1", "'a' 'b'", "'ab' * 2", "'a' + 1", "1()",
     "len(1)", "len('a', 'b')", "math.zz", "math", "len", "(1,\n2)", "1\n",
     "\n1", "1 # __", "1 # print", "[print for print in 'a']",
     "[x for x in 'ab' if x for y in (1, 2)]", "{1, 1, 2}", "{1: 2, 1: 3}",
     "'ab'[1]", "(1, 2)[5]", "len(x for x in 'ab')", "f(x := 1)",
     "len([lambda: 1])", "[(yield)]", "x.getattr", "math.floor(2)",
     "[a + b for a, b in ((1, 2), (3, 4))]", "len(s='a')", "()", "[]", "{}",
     EscapePayload}

Inputs ==
    UNION {NameForms(n) : n \in Identifiers}
    \cup Nested(MaxDepth) \cup Statements \cup Examples

\* what the module calling evaluate() may have bound
CallerScopes == {{}, {"os", "x"}}

Init ==
    /\ exp \in Inputs
    /\ caller \in CallerScopes
    /\ pc = "dunder"
    /\ tree = NoTree
    /\ cobj = NoCode
    /\ result = Running
    /\ executed = <<>>
    /\ steps = <<>>
    /\ ComputeIdle /\ SortIdle /\ ReportIdle /\ LaterIdle

Next == DunderCheck \/ ParseStep \/ WalkStep \/ CompileStep \/ EvalStep

Spec == Init /\ [][Next]_vars

---------------------------------------------------------------------------
(* The calls of DataField.compute() that are examined *)

\* expression templates of computed fields: arithmetic on one or two
\* fields, a field id that is the start of another, $ in odd places,
\* templates the evaluator refuses and templates that name an id no row has
Templates ==
    {"7", "$a", "$a + $b", "$a * 2", "$a - $b", "$a / $b", "$a // $b",
     "$a % $b", "$a / 0", "1 / 0", "($a + $b) * $ab", "$a + $a",
     "$a + $ab", "$ab + $a", "$ab - $b", "len('$a')", "abs($a)",
     "$a$b", "x$a", "$", "$zz + 1", "$a + $zz",
     "__import__('os')", "$a + __x", "$a.__class__", "print($a)",
     "PRINT($a)", "eval('$a')", "(lambda: $a)()", "(x := $a)",
     "__import__($zz)", "print($zz)", "$a if $b else print",
     "[x for x in ($a,)]", "vars()", "os.system('$a')"}

\* rows: ids a, b and ab with ints, a zero, None, a value with a $ in it,
\* a value with __ in it, and rows that lack b or ab or everything
Rows ==
    {[a |-> VInt(6), b |-> VInt(3), ab |-> VInt(7)],
     [a |-> VInt(6), b |-> VInt(0)],
     [a |-> VInt(1)],
     <<>>,
     [a |-> VStr("$b"), b |-> VInt(2), ab |-> VInt(5)],
     [a |-> VNone, b |-> VInt(2), ab |-> VInt(1)],
     [a |-> VStr("__x"), b |-> VInt(1), ab |-> VInt(1)],
     [a |-> VInt(-4), b |-> VInt(2), ab |-> VInt(0)],
     [a |-> VInt(12), b |-> VInt(5), ab |-> VInt(12), zz |-> VInt(1)]}

InitCompute ==
    /\ field \in Templates
    /\ data \in Rows
    /\ handed = <<>>
    /\ outcome = Running
    /\ EvaluateIdle /\ SortIdle /\ ReportIdle /\ LaterIdle

NextCompute == Compute

SpecCompute == InitCompute /\ [][NextCompute]_vars

---------------------------------------------------------------------------
(* multikeysort (vmtreport/util.py, vmtreport/__init__.py) *)

\* str.strip() of the blanks of s
RECURSIVE Strip(_)
Strip(s) ==
    IF s = "" THEN s
    ELSE IF IsBlank(Ch(s, 1)) THEN Strip(SubSeq(s, 2, Len(s)))
    ELSE IF IsBlank(Ch(s, Len(s))) THEN Strip(SubSeq(s, 1, Len(s) - 1))
    ELSE s

\* the key ig() reads for col: col[1:].strip() if col.startswith('-')
\* else col.strip()
ColKey(col) ==
    IF StartsAt(col, "-", 1) THEN Strip(SubSeq(col, 2, Len(col))) ELSE Strip(col)

\* every column sorts ascending
ColMultAscending(col) == 1

\* the multiplier of col: -1 if col.startswith('-') else 1
ColMult(col) == IF StartsAt(col, "-", 1) THEN -1 ELSE 1

\* the characters of the rows' strings in the order of their code points
ASCII ==
    " !#$%&'()*+,-./0123456789:;<=>?@ABCDEFGHIJKLMNOPQRSTUVWXYZ[]^_abcdefghijklmnopqrstuvwxyz{|}~"

RECURSIVE StrCmp(_, _, _)
\* (a > b) - (a < b) for two strings, from their i-th characters on
StrCmp(a, b, i) ==
    IF i > Len(a) /\ i > Len(b) THEN 0
    ELSE IF i > Len(a) THEN -1
    ELSE IF i > Len(b) THEN 1
    ELSE IF Ch(a, i) = Ch(b, i) THEN StrCmp(a, b, i + 1)
    ELSE IF IndexOf(ASCII, Ch(a, i)) < IndexOf(ASCII, Ch(b, i)) THEN -1 ELSE 1

\* cmp(x, y): (x > y) - (x < y); [exc, c].  Numbers compare by value,
\* strings by code points; None, and a number with a string, raise TypeError
cmp(x, y) ==
    IF IsNumber(x) /\ IsNumber(y)
    THEN [exc |-> "", c |-> IF x.n * y.d > y.n * x.d THEN 1
                            ELSE IF x.n * y.d < y.n * x.d THEN -1 ELSE 0]
    ELSE IF x.k = "str" /\ y.k = "str" THEN [exc |-> "", c |-> StrCmp(x.s, y.s, 1)]
    ELSE [exc |-> "TypeError", c |-> 0]

RECURSIVE comparer(_, _, _, _)
\* comparer(left, right) from the i-th column on: the first
\* cmp(fn(left), fn(right)) * mult that is not 0, else 0; [exc, c].  ig(key)
\* raises KeyError for a row without the key
comparer(left, right, cols, i) ==
    IF i > Len(cols) THEN [exc |-> "", c |-> 0]
    ELSE IF ColKey(cols[i]) \notin DOMAIN left \/ ColKey(cols[i]) \notin DOMAIN right
    THEN [exc |-> "KeyError", c |-> 0]
    ELSE IF cmp(left[ColKey(cols[i])], right[ColKey(cols[i])]).exc # ""
         \/ cmp(left[ColKey(cols[i])], right[ColKey(cols[i])]).c # 0
    THEN [exc |-> cmp(left[ColKey(cols[i])], right[ColKey(cols[i])]).exc,
          c |-> cmp(left[ColKey(cols[i])], right[ColKey(cols[i])]).c * ColMult(cols[i])]
    ELSE comparer(left, right, cols, i + 1)

\* K(x) < K(y) of cmp_to_key(comparer): comparer(x, y) < 0; [exc, c]
Less(x, y, cols) == comparer(x, y, cols, 1)

RECURSIVE CountRun(_, _, _, _)
\* list.sort's count_run: the length of the run that starts the list, a
\* being scanned from index i on; a descending run is strictly descending.
\* [exc, n]
CountRun(a, cols, i, descending) ==
    IF i > Len(a) THEN [exc |-> "", n |-> Len(a)]
    ELSE IF Less(a[i], a[i - 1], cols).exc # ""
    THEN [exc |-> Less(a[i], a[i - 1], cols).exc, n |-> 0]
    ELSE IF (Less(a[i], a[i - 1], cols).c < 0) = descending
    THEN CountRun(a, cols, i + 1, descending)
    ELSE [exc |-> "", n |-> i - 1]

\* a[:n] reversed, then a[n:]
ReverseRun(a, n) == [i \in 1..Len(a) |-> IF i <= n THEN a[n + 1 - i] ELSE a[i]]

RECURSIVE BinarySearch(_, _, _, _, _)
\* list.sort's binarysort, its inner loop: where pivot goes in the sorted
\* a[l..r-1], after the rows it is not less than; [exc, n]
BinarySearch(a, cols, pivot, l, r) ==
    IF l >= r THEN [exc |-> "", n |-> l]
    ELSE IF Less(pivot, a[l + ((r - l) \div 2)], cols).exc # ""
    THEN [exc |-> Less(pivot, a[l + ((r - l) \div 2)], cols).exc, n |-> 0]
    ELSE IF Less(pivot, a[l + ((r - l) \div 2)], cols).c < 0
    THEN BinarySearch(a, cols, pivot, l, l + ((r - l) \div 2))
    ELSE BinarySearch(a, cols, pivot, l + ((r - l) \div 2) + 1, r)

\* a with a[start] moved to index at, the rows between shifted up by one
MoveTo(a, start, at) ==
    [i \in 1..Len(a) |-> IF i = at THEN a[start]
                         ELSE IF i > at /\ i <= start THEN a[i - 1] ELSE a[i]]

RECURSIVE BinarySort(_, _, _, _)
\* list.sort's binarysort: a[1..start-1] is sorted, the rows from start on
\* are inserted one by one, at the index (at) the search gives; [exc, val]
BinarySort(a, cols, start, at) ==
    IF start > Len(a) THEN [exc |-> "", val |-> a]
    ELSE IF at.exc # "" THEN [exc |-> at.exc, val |-> <<>>]
    ELSE IF start = Len(a) THEN [exc |-> "", val |-> MoveTo(a, start, at.n)]
    ELSE BinarySort(MoveTo(a, start, at.n), cols, start + 1,
                    BinarySearch(MoveTo(a, start, at.n), cols,
                                 MoveTo(a, start, at.n)[start + 1], 1, start + 1))

\* list.sort after count_run, run its outcome: a descending run is
\* reversed, the rest is sorted in by binarysort (a list this short is one run)
SortRun(a, cols, run, descending) ==
    IF run.exc # "" THEN [exc |-> run.exc, val |-> <<>>]
    ELSE IF run.n = Len(a)
    THEN [exc |-> "", val |-> IF descending THEN ReverseRun(a, run.n) ELSE a]
    ELSE IF descending
    THEN BinarySort(ReverseRun(a, run.n), cols, run.n + 1,
                    BinarySearch(ReverseRun(a, run.n), cols, a[run.n + 1], 1, run.n + 1))
    ELSE BinarySort(a, cols, run.n + 1,
                    BinarySearch(a, cols, a[run.n + 1], 1, run.n + 1))

\* the first comparison of count_run, first its outcome: a[1] < a[0]
SortFirst(a, cols, first) ==
    IF first.exc # "" THEN [exc |-> first.exc, val |-> <<>>]
    ELSE SortRun(a, cols, CountRun(a, cols, 3, first.c < 0), first.c < 0)

\* multikeysort(items, columns): sorted(items, key=cmp_to_key(comparer));
\* [exc, val].  A list of fewer than two rows is compared with nothing
multikeysort(a, cols) ==
    IF Len(a) < 2 THEN [exc |-> "", val |-> a]
    ELSE SortFirst(a, cols, Less(a[2], a[1], cols))

\* how a call that gave r ended: r.val returned, or r.exc raised
SortOutcome(r) ==
    IF r.exc = "" THEN [st |-> "returned", exc |-> "", val |-> r.val]
    ELSE [st |-> "raised", exc |-> r.exc, val |-> <<>>]

\* multikeysort(items, columns): the whole call
Sort ==
    /\ sorted = Running
    /\ sorted' = SortOutcome(multikeysort(sortItems, columns))
    /\ UNCHANGED <<sortItems, columns>>
    /\ UNCHANGED notSortVars

---------------------------------------------------------------------------
(* The calls of multikeysort() that are examined *)

\* the longest list sorted
MaxItems == 3

\* rows with keys a and b and a tag t that is no sort key; rows equal on a
\* and b differ in t.  One row has a name for a, one has None for b and
\* one has no b
SortRows ==
    {[a |-> VInt(1), b |-> VInt(1), t |-> VStr("p")],
     [a |-> VInt(1), b |-> VInt(1), t |-> VStr("q")],
     [a |-> VInt(1), b |-> VInt(2), t |-> VStr("p")],
     [a |-> VInt(2), b |-> VInt(1), t |-> VStr("p")],
     [a |-> VInt(2), b |-> VInt(2), t |-> VStr("q")],
     [a |-> VStr("Zeta"), b |-> VInt(1), t |-> VStr("p")],
     [a |-> VInt(2), b |-> VNone, t |-> VStr("p")],
     [a |-> VInt(1), t |-> VStr("q")]}

\* sort keys: one or two, ascending and descending, with blanks around
SortColumns ==
    {<<>>, <<"a">>, <<"-a">>, <<"t">>, <<"-t", "a">>, <<"-b", "a">>,
     <<"a", "-b">>, <<"b", "-a", "t">>, <<" a ">>, <<"- b">>}

InitSort ==
    /\ sortItems \in UNION {[1..n -> SortRows] : n \in 0..MaxItems}
    /\ columns \in SortColumns
    /\ sorted = Running
    /\ EvaluateIdle /\ ComputeIdle /\ ReportIdle /\ LaterIdle

NextSort == Sort

SpecSort == InitSort /\ [][NextSort]_vars

---------------------------------------------------------------------------
(* GroupedDataReport (vmtreport/__init__.py).  A dict of the API is         *)
(* Tree(m), m a function from its keys to values or dicts; a row is a       *)
(* function from field ids to values; the OrderedDict of an output row and  *)
(* the dict self.fields are sequences of <<key, value>> in insertion order. *)

Tree(m) == [k |-> "tree", map |-> m]

\* what data[key] gives: a value, or the exception it raises
Got(exc, val) == [exc |-> exc, val |-> val]

\* _field.split(':', maxsplit=1)
SplitColon(path) ==
    IF \E i \in 1..Len(path) : Ch(path, i) = ":"
    THEN LET i == CHOOSE j \in 1..Len(path) :
                      /\ Ch(path, j) = ":"
                      /\ \A h \in 1..(j - 1) : Ch(path, h) # ":"
         IN  <<SubSeq(path, 1, i - 1), SubSeq(path, i + 1, Len(path))>>
    ELSE <<path>>

\* data[key]
GetItem(t, key) ==
    IF t.k # "tree" THEN Got("TypeError", VNone)
    ELSE IF key \notin DOMAIN t.map THEN Got("KeyError", VNone)
    ELSE Got("", t.map[key])

RECURSIVE tree_get(_, _, _)
\* f.tree_get(data, _field) of a field whose value is value
tree_get(t, path, value) ==
    LET keys == SplitColon(IF path = "" THEN value ELSE path)
    IN  IF Len(keys) > 1
        THEN IF GetItem(t, keys[1]).exc # "" THEN GetItem(t, keys[1])
             ELSE tree_get(GetItem(t, keys[1]).val, keys[2], value)
        ELSE GetItem(t, keys[1])

\* d[key] = val of a dict kept in insertion order
RECURSIVE Put(_, _, _)
Put(d, key, val) ==
    IF d = <<>> THEN <<<<key, val>>>>
    ELSE IF d[1][1] = key THEN <<<<key, val>>>> \o Tail(d)
    ELSE <<d[1]>> \o Put(Tail(d), key, val)

\* DataField(config)
DataField(c) ==
    IF c.type \in {"commodity", "template"}
    THEN [id |-> c.id, type |-> c.type, name |-> SplitColon(c.value)[1],
          value |-> SplitColon(c.value)[2], label |-> c.label]
    ELSE [id |-> c.id, type |-> c.type, name |-> "", value |-> c.value,
          label |-> c.label]

RECURSIVE FieldsFrom(_, _, _)
\* {f['id']: DataField(f) for f in fields}, from the i-th on
FieldsFrom(cfgs, i, d) ==
    IF i > Len(cfgs) THEN d
    ELSE FieldsFrom(cfgs, i + 1, Put(d, cfgs[i].id, DataField(cfgs[i])))

\* self.fields.values()
Fields(cfgs) ==
    [i \in 1..Len(FieldsFrom(cfgs, 1, <<>>)) |-> FieldsFrom(cfgs, 1, <<>>)[i][2]]

\* _commodities: the related types in the order of the dict
CommodityTypes == <<"Cluster", "PhysicalMachine", "Storage", "VirtualMachine">>

commodities ==
    [Cluster |-> {"CPUHeadroom", "MemHeadroom", "numContainers", "numHosts",
                  "numStorages", "numVDCs", "numVMs", "StorageHeadroom"},
     PhysicalMachine |-> {"Ballooning", "CPU", "CPUAllocation", "CPUProvisioned",
                  "HOST_LUN_ACCESS", "IOThroughput", "Mem", "MemAllocation",
                  "MemProvisioned", "numCPUs", "numSockets", "NetThroughput",
                  "Q1VCPU", "Q2VCPU", "Q4VCPU", "Q8VCPU", "Q16VCPU", "Q32VCPU",
                  "Swapping"},
     Storage |-> {"StorageAccess", "StorageAmount", "StorageLatency",
                  "StorageProvisioned"},
     VirtualMachine |-> {"numVCPUs", "VCPU", "VMem", "VStorage"}]

\* _template_resources: the resource types in the order of the dict
TemplateTypes == <<"computeResources", "infrastructureResources", "storageResources">>

template_resources ==
    [computeResources |-> {"cpuConsumedFactor", "cpuSpeed", "ioThroughput",
                  "memoryConsumedFactor", "memorySize", "networkThroughput",
                  "numOfCpu"},
     infrastructureResources |-> {"coolingSize", "powerSize", "spaceSize"},
     storageResources |-> {"diskConsumedFactor", "diskIops", "diskSize"}]

\* {**row, **new}
Merge(row, new) ==
    [x \in DOMAIN row \cup DOMAIN new |-> IF x \in DOMAIN new THEN new[x] ELSE row[x]]

\* row[key] = val
SetKey(row, key, val) == Merge(row, key :> val)

\* what one call of _get_group_data leaves: the data it returns, the cache,
\* the requests made of the connection, and the tracebacks printed
Gathered(d, c, rq, lg) == [data |-> d, cache |-> c, calls |-> rq, log |-> lg]

\* traceback.print_exc() of exc when there is one
Printed(lg, exc, group, type) ==
    IF exc = "" THEN lg ELSE Append(lg, [exc |-> exc, group |-> group, type |-> type])

\* the empty dicts of the new cache: {'stats': {}, 'template': {}, 'property': {}}
NewCache(ids) ==
    [g \in {ids[i] : i \in 1..Len(ids)} |->
        [stats |-> <<>>, template |-> Tree(<<>>), property |-> Tree(<<>>)]]

\* not x, x a dict, a list or None
Not(x) ==
    IF x.k = "none" THEN TRUE
    ELSE IF x.k = "tree" THEN DOMAIN x.map = {}
    ELSE x.items = <<>>

\* a request made of the connection
Request(op, scope, related, stats) ==
    [op |-> op, scope |-> scope, related |-> related, stats |-> stats]

\* FieldTypes.STRING: for f in ...: _data[f.id] = f.value
RECURSIVE SetLiterals(_, _, _)
SetLiterals(fs, i, d) ==
    IF i > Len(fs) THEN d
    ELSE SetLiterals(fs, i + 1, IF fs[i].type = "string"
                                THEN SetKey(d, fs[i].id, VStr(fs[i].value))
                                ELSE d)

\* self.conn.search(uuid=group)[0], answer what search() gives
SearchFirst(answer) ==
    IF answer.exc # "" THEN Got(answer.exc, VNone)
    ELSE IF answer.val = <<>> THEN Got("IndexError", VNone)
    ELSE Got("", answer.val[1])

\* what a statement that may raise leaves: the exception if any, the cache
\* and the requests made
Loaded(exc, c, rq) == [exc |-> exc, cache |-> c, calls |-> rq]

\* self.__cache[group]['property'] = self.conn.search(uuid=group)[0]
StoreProperty(group, first, c, rq) ==
    Loaded(first.exc,
           IF first.exc = "" THEN [c EXCEPT ![group].property = first.val] ELSE c,
           Append(rq, Request("search", group, "", {})))

\* if not self.__cache[group]['property']: ... = self.conn.search(uuid=group)[0]
LoadProperty(conn, group, c, rq) ==
    IF Not(c[group].property)
    THEN StoreProperty(group, SearchFirst(conn.search[group]), c, rq)
    ELSE Loaded("", c, rq)

\* FieldTypes.PROPERTY: for f in ...: _data[f.id] = f.tree_get(property)
RECURSIVE SetProperties(_, _, _, _)
SetProperties(fs, i, prop, d) ==
    IF i > Len(fs) THEN Got("", d)
    ELSE IF fs[i].type # "property" THEN SetProperties(fs, i + 1, prop, d)
    ELSE IF tree_get(prop, "", fs[i].value).exc # ""
    THEN Got(tree_get(prop, "", fs[i].value).exc, d)
    ELSE SetProperties(fs, i + 1, prop,
                       SetKey(d, fs[i].id, tree_get(prop, "", fs[i].value).val))

\* the PROPERTY branch once the property is loaded, or the load has raised
PropertyLoaded(fs, group, ld, d) ==
    IF ld.exc # "" THEN Got(ld.exc, d)
    ELSE SetProperties(fs, 1, ld.cache[group].property, d)

\* current(value): value['epoch'] == 'CURRENT'
current(value) ==
    IF GetItem(value, "epoch").exc # "" THEN Got(GetItem(value, "epoch").exc, FALSE)
    ELSE Got("", GetItem(value, "epoch").val = VStr("CURRENT"))

\* _data[f.id] = _data.get(f.id, 0) + f.tree_get(v)
AddTo(d, f, v) ==
    IF tree_get(v, "", f.value).exc # "" THEN Got(tree_get(v, "", f.value).exc, d)
    ELSE IF tree_get(v, "", f.value).val.k = "tree" THEN Got("TypeError", d)
    ELSE IF BinOp("+", IF f.id \in DOMAIN d THEN d[f.id] ELSE VInt(0),
                  tree_get(v, "", f.value).val, <<>>).exc # ""
    THEN Got(BinOp("+", IF f.id \in DOMAIN d THEN d[f.id] ELSE VInt(0),
                   tree_get(v, "", f.value).val, <<>>).exc, d)
    ELSE Got("", SetKey(d, f.id,
                        BinOp("+", IF f.id \in DOMAIN d THEN d[f.id] ELSE VInt(0),
                              tree_get(v, "", f.value).val, <<>>).val))

\* for f in [x for x in _fields if x.name == v['name']]: the roll-up of v
RECURSIVE RollUpOne(_, _, _, _)
RollUpOne(fs, i, v, d) ==
    IF i > Len(fs) THEN Got("", d)
    ELSE IF GetItem(v, "name").exc # "" THEN Got(GetItem(v, "name").exc, d)
    ELSE IF GetItem(v, "name").val # VStr(fs[i].name) THEN RollUpOne(fs, i + 1, v, d)
    ELSE IF AddTo(d, fs[i], v).exc # "" THEN AddTo(d, fs[i], v)
    ELSE RollUpOne(fs, i + 1, v, AddTo(d, fs[i], v).val)

\* every observation is rolled up, whatever its epoch
KeepAll(related, v) == Got("", TRUE)

\* enumerate_stats(..., period=func) keeps v: func is current for the
\* Cluster type and None for the others
Keep(related, v) == IF related = "Cluster" THEN current(v) ELSE Got("", TRUE)

\* for p, v in vc.util.enumerate_stats(stats, period=func): the roll-up
RECURSIVE RollUp(_, _, _, _, _)
RollUp(obs, i, fs, related, d) ==
    IF i > Len(obs) THEN Got("", d)
    ELSE IF Keep(related, obs[i]).exc # "" THEN Got(Keep(related, obs[i]).exc, d)
    ELSE IF ~Keep(related, obs[i]).val THEN RollUp(obs, i + 1, fs, related, d)
    ELSE IF RollUpOne(fs, 1, obs[i], d).exc # "" THEN RollUpOne(fs, 1, obs[i], d)
    ELSE RollUp(obs, i + 1, fs, related, RollUpOne(fs, 1, obs[i], d).val)

\* self.__cache[group]['stats'].get(idx)
CachedStats(c, group, idx) ==
    IF idx \in DOMAIN c[group].stats THEN c[group].stats[idx] ELSE VNone

\* if not self.__cache[group]['stats'].get(idx)
NeedStats(c, group, idx) == Not(CachedStats(c, group, idx))

\* self.__cache[group]['stats'][idx] = self.conn.get_entity_stats(scope=[group],
\* stats=stats, related_type=related_type), answer what the call gives
StoreStats(group, idx, names, answer, c, rq) ==
    Loaded(answer.exc,
           IF answer.exc = ""
           THEN [c EXCEPT ![group].stats = Merge(@, idx :> answer.val)]
           ELSE c,
           Append(rq, Request("get_entity_stats", group,
                              IF idx = "Cluster" THEN "None" ELSE idx, names)))

\* if not self.__cache[group]['stats'].get(idx): ... = get_entity_stats(...)
LoadStats(conn, group, idx, names, c, rq) ==
    IF NeedStats(c, group, idx)
    THEN StoreStats(group, idx, names, conn.stats[<<group, idx>>], c, rq)
    ELSE Loaded("", c, rq)

\* the COMMODITY branch once the stats are loaded, or the load has raised
StatsLoaded(fs, group, idx, ld, d) ==
    IF ld.exc # "" THEN Got(ld.exc, d)
    ELSE RollUp(ld.cache[group].stats[idx].items, 1, fs, idx, d)

\* x.type == type and x.name in _commodities[related_type]
MetricFields(fs, related) ==
    LET keep(x) == x.type = "commodity" /\ x.name \in commodities[related]
    IN  SelectSeq(fs, keep)

\* x.type == type and x.name in _template_resources[related_type]
TemplateFields(fs, related) ==
    LET keep(x) == x.type = "template" /\ x.name \in template_resources[related]
    IN  SelectSeq(fs, keep)

\* {x.name for x in _fields}
Names(fs) == {fs[i].name : i \in 1..Len(fs)}

\* target = property['source']['displayName'], cluster =
\* property['displayName'].replace('\\', '_'), and the name made of them
TemplateName(prop) ==
    IF tree_get(prop, "source:displayName", "").exc # ""
    THEN Got(tree_get(prop, "source:displayName", "").exc, "")
    ELSE IF GetItem(prop, "displayName").exc # ""
    THEN Got(GetItem(prop, "displayName").exc, "")
    ELSE IF GetItem(prop, "displayName").val.k = "tree" THEN Got("AttributeError", "")
    ELSE IF GetItem(prop, "displayName").val.k # "str" THEN Got("AttributeError", "")
    ELSE IF tree_get(prop, "source:displayName", "").val.k = "tree"
    THEN Got("", "{...}::AVG:"
                 \o Replace(GetItem(prop, "displayName").val.s, "\\", "_")
                 \o " for last 10 days")
    ELSE Got("", Str(tree_get(prop, "source:displayName", "").val) \o "::AVG:"
                 \o Replace(GetItem(prop, "displayName").val.s, "\\", "_")
                 \o " for last 10 days")

\* self.conn.get_template_by_name(tname)
TemplateAnswer(conn, tname) ==
    IF tname \in DOMAIN conn.template THEN conn.template[tname] ELSE Got("", VNone)

\* self.__cache[group]['template'] = self.conn.get_template_by_name(tname)
StoreTemplate(group, tname, answer, c, rq) ==
    Loaded(answer.exc,
           IF answer.exc = "" THEN [c EXCEPT ![group].template = answer.val] ELSE c,
           Append(rq, Request("get_template_by_name", tname, "", {})))

\* if not self.__cache[group]['template']: ... = get_template_by_name(tname)
LoadTemplate(conn, group, tname, c, rq) ==
    IF Not(c[group].template)
    THEN StoreTemplate(group, tname, TemplateAnswer(conn, tname), c, rq)
    ELSE Loaded("", c, rq)

\* for f in [x for x in _fields if x.name == v['name']]: _data[f.id] = f.tree_get(v)
RECURSIVE SetResource(_, _, _, _)
SetResource(fs, i, v, d) ==
    IF i > Len(fs) THEN Got("", d)
    ELSE IF GetItem(v, "name").exc # "" THEN Got(GetItem(v, "name").exc, d)
    ELSE IF GetItem(v, "name").val # VStr(fs[i].name) THEN SetResource(fs, i + 1, v, d)
    ELSE IF tree_get(v, "", fs[i].value).exc # ""
    THEN Got(tree_get(v, "", fs[i].value).exc, d)
    ELSE SetResource(fs, i + 1, v, SetKey(d, fs[i].id, tree_get(v, "", fs[i].value).val))

\* for p, v in vc.util.enumerate_template_resources(template, restype=...)
RECURSIVE SetResources(_, _, _, _)
SetResources(res, i, fs, d) ==
    IF i > Len(res) THEN Got("", d)
    ELSE IF SetResource(fs, 1, res[i], d).exc # "" THEN SetResource(fs, 1, res[i], d)
    ELSE SetResources(res, i + 1, fs, SetResource(fs, 1, res[i], d).val)

\* the resources of a template that are of the type related
ResourcesOf(template, related) ==
    IF related \in DOMAIN template.map THEN template.map[related].items ELSE <<>>

\* the TEMPLATE branch once the template is loaded, or the load has raised
TemplateLoaded(fs, group, related, ld, d) ==
    IF ld.exc # "" THEN Got(ld.exc, d)
    ELSE IF ld.cache[group].template.k = "none" THEN Got("", d)
    ELSE SetResources(ResourcesOf(ld.cache[group].template, related), 1, fs, d)

\* _data = {'_id': group}
NewData(group) == "_id" :> VStr(group)

\* except Exception as e: traceback.print_exc(); return _data
Caught(got, ld, lg, group, type) ==
    Gathered(got.val, ld.cache, ld.calls, Printed(lg, got.exc, group, type))

\* the TEMPLATE branch from the template's name on
TemplateNamed(fs, conn, group, related, ldp, tname, lg) ==
    IF tname.exc # "" THEN Caught(Got(tname.exc, NewData(group)), ldp, lg, group, "template")
    ELSE Caught(TemplateLoaded(fs, group, related,
                               LoadTemplate(conn, group, tname.val, ldp.cache, ldp.calls),
                               NewData(group)),
                LoadTemplate(conn, group, tname.val, ldp.cache, ldp.calls),
                lg, group, "template")

\* the TEMPLATE branch once the property is loaded, or the load has raised
TemplateProperty(fs, conn, group, related, ldp, lg) ==
    IF ldp.exc # "" THEN Caught(Got(ldp.exc, NewData(group)), ldp, lg, group, "template")
    ELSE TemplateNamed(fs, conn, group, related, ldp,
                       TemplateName(ldp.cache[group].property), lg)

\* the COMMODITY branch given the fields of the related type
MetricGathered(mfs, conn, group, related, ld, lg) ==
    Caught(StatsLoaded(mfs, group, related, ld, NewData(group)), ld, lg, group, "commodity")

\* self._get_group_data(group, type, related_type), with fs the fields, conn
\* the connection, c the cache, rq the requests made so far and lg the
\* tracebacks printed so far
get_group_data(fs, conn, group, type, related, c, rq, lg) ==
    IF type = "string"
    THEN Gathered(SetLiterals(fs, 1, NewData(group)), c, rq, lg)
    ELSE IF type = "property"
    THEN Caught(PropertyLoaded(fs, group, LoadProperty(conn, group, c, rq), NewData(group)),
                LoadProperty(conn, group, c, rq), lg, group, "property")
    ELSE IF type = "commodity"
    THEN IF MetricFields(fs, related) = <<>> THEN Gathered(NewData(group), c, rq, lg)
         ELSE MetricGathered(MetricFields(fs, related), conn, group, related,
                             LoadStats(conn, group, related,
                                       Names(MetricFields(fs, related)), c, rq), lg)
    ELSE IF TemplateFields(fs, related) = <<>> THEN Gathered(NewData(group), c, rq, lg)
    ELSE TemplateProperty(TemplateFields(fs, related), conn, group, related,
                          LoadProperty(conn, group, c, rq), lg)

---------------------------------------------------------------------------
(* GroupedDataReport.apply(sort), stage by stage.  stage is the statement   *)
(* of apply() that runs next: its name, the index g of the group of the     *)
(* for loop, and for the commodity and template stages the index k of the   *)
(* related type.                                                            *)

Stage(op, g, k) == [op |-> op, g |-> g, k |-> k]

\* the first statement of apply() for n groups
FirstStage(n) == IF n = 0 THEN Stage("sort", 0, 0) ELSE Stage("string", 1, 0)

\* the statement after s when none has raised, n the number of groups
StageAfter(s, n) ==
    IF s.op = "string" THEN Stage("property", s.g, 0)
    ELSE IF s.op = "property" THEN Stage("commodity", s.g, 1)
    ELSE IF s.op = "commodity"
    THEN IF s.k < Len(CommodityTypes) THEN Stage("commodity", s.g, s.k + 1)
         ELSE Stage("template", s.g, 1)
    ELSE IF s.op = "template"
    THEN IF s.k < Len(TemplateTypes) THEN Stage("template", s.g, s.k + 1)
         ELSE Stage("computed", s.g, 0)
    ELSE IF s.op = "computed" THEN Stage("gapfill", s.g, 0)
    ELSE IF s.op = "gapfill" THEN Stage("append", s.g, 0)
    ELSE IF s.op = "append"
    THEN IF s.g < n THEN Stage("string", s.g + 1, 0) ELSE Stage("sort", 0, 0)
    ELSE IF s.op = "sort" THEN Stage("project", 0, 0)
    ELSE Stage("done", 0, 0)

\* self.fields.values()
TheFields == Fields(config.fields)

\* g of for g in self.groups.ids
TheGroup == config.groups[stage.g]

\* what a call of _get_group_data leaves besides the row
Gather(r) ==
    /\ cache' = r.cache
    /\ calls' = r.calls
    /\ log' = r.log
    /\ stage' = StageAfter(stage, Len(config.groups))
    /\ UNCHANGED <<config, rows, report>>
    /\ UNCHANGED notReportVars

\* _row = self._get_group_data(g, FieldTypes.STRING)
Literal ==
    /\ stage.op = "string"
    /\ groupRow' = get_group_data(TheFields, config.conn, TheGroup, "string", "",
                                  cache, calls, log).data
    /\ Gather(get_group_data(TheFields, config.conn, TheGroup, "string", "",
                             cache, calls, log))

\* _row = {**_row, **self._get_group_data(g, FieldTypes.PROPERTY)}
Property ==
    /\ stage.op = "property"
    /\ groupRow' = Merge(groupRow,
                         get_group_data(TheFields, config.conn, TheGroup, "property", "",
                                        cache, calls, log).data)
    /\ Gather(get_group_data(TheFields, config.conn, TheGroup, "property", "",
                             cache, calls, log))

\* for c in _commodities:
\*     _row = {**_row, **self._get_group_data(g, FieldTypes.COMMODITY, c)}
Metric ==
    /\ stage.op = "commodity"
    /\ groupRow' = Merge(groupRow,
                         get_group_data(TheFields, config.conn, TheGroup, "commodity",
                                        CommodityTypes[stage.k], cache, calls, log).data)
    /\ Gather(get_group_data(TheFields, config.conn, TheGroup, "commodity",
                             CommodityTypes[stage.k], cache, calls, log))

\* for t in _template_resources:
\*     _row = {**_row, **self._get_group_data(g, FieldTypes.TEMPLATE, t)}
Template ==
    /\ stage.op = "template"
    /\ groupRow' = Merge(groupRow,
                         get_group_data(TheFields, config.conn, TheGroup, "template",
                                        TemplateTypes[stage.k], cache, calls, log).data)
    /\ Gather(get_group_data(TheFields, config.conn, TheGroup, "template",
                             TemplateTypes[stage.k], cache, calls, log))

RECURSIVE ComputeFields(_, _, _)
\* the computed field is not stored in the row
ComputedDropped(fs, i, row, r) ==
    IF r.st = "raised" THEN Got(r.exc, row) ELSE ComputeFields(fs, i + 1, row)

\* _row[f.id] = f.compute(_row), r what compute() gave, and the fields after
ComputedStored(fs, i, row, r) ==
    IF r.st = "raised" THEN Got(r.exc, row)
    ELSE ComputeFields(fs, i + 1, SetKey(row, fs[i].id, r.val))

\* for f in [x for x in self.fields.values() if x.type == FieldTypes.COMPUTED]:
\*     _row[f.id] = f.compute(_row)
ComputeFields(fs, i, row) ==
    IF i > Len(fs) THEN Got("", row)
    ELSE IF fs[i].type # "computed" THEN ComputeFields(fs, i + 1, row)
    ELSE ComputedStored(fs, i, row, compute(fs[i].value, row))

\* apply() ends raising exc
Raise(exc) ==
    /\ report' = Raised(exc)
    /\ stage' = Stage("done", 0, 0)

\* the next stage of apply(), or its end when r holds an exception
Proceed(r) ==
    IF r.exc # "" THEN Raise(r.exc)
    ELSE /\ stage' = StageAfter(stage, Len(config.groups))
         /\ UNCHANGED report

\* build calculated fields
ComputedFields ==
    /\ stage.op = "computed"
    /\ groupRow' = ComputeFields(TheFields, 1, groupRow).val
    /\ Proceed(ComputeFields(TheFields, 1, groupRow))
    /\ UNCHANGED <<config, cache, calls, rows, log>>
    /\ UNCHANGED notReportVars

\* the field is returned in the dataset: if x.label
Labeled(f) == Truthy(f.label)

\* for f in [x for x in self.fields.values() if x.label]:
\*     if f.id not in _row: _row[f.id] = None
RECURSIVE FillGaps(_, _, _)
FillGaps(fs, i, row) ==
    IF i > Len(fs) THEN row
    ELSE FillGaps(fs, i + 1, IF Labeled(fs[i]) /\ fs[i].id \notin DOMAIN row
                             THEN SetKey(row, fs[i].id, VNone)
                             ELSE row)

\* fill in gaps if any
GapFill ==
    /\ stage.op = "gapfill"
    /\ groupRow' = FillGaps(TheFields, 1, groupRow)
    /\ stage' = StageAfter(stage, Len(config.groups))
    /\ UNCHANGED <<config, cache, calls, rows, log, report>>
    /\ UNCHANGED notReportVars

\* data = [*data, _row]
AppendRow ==
    /\ stage.op = "append"
    /\ rows' = Append(rows, groupRow)
    /\ stage' = StageAfter(stage, Len(config.groups))
    /\ UNCHANGED <<config, cache, calls, groupRow, log, report>>
    /\ UNCHANGED notReportVars

\* the rows are left in the order of the groups
SortSkipped(list, sort) == [exc |-> "", val |-> list]

\* if sort: data = multikeysort(data, sort)
SortRowsBy(list, sort) ==
    IF sort = <<>> THEN [exc |-> "", val |-> list] ELSE multikeysort(list, sort)

SortStage ==
    /\ stage.op = "sort"
    /\ rows' = IF SortRowsBy(rows, config.sort).exc = ""
               THEN SortRowsBy(rows, config.sort).val ELSE rows
    /\ Proceed(SortRowsBy(rows, config.sort))
    /\ UNCHANGED <<config, cache, calls, groupRow, log>>
    /\ UNCHANGED notReportVars

\* for f in [x for x in self.fields.values() if x.label]:
\*     _row[f.label] = row[f.id]
RECURSIVE ProjectRow(_, _, _, _)
ProjectRow(fs, i, row, od) ==
    IF i > Len(fs) THEN Got("", od)
    ELSE IF ~Labeled(fs[i]) THEN ProjectRow(fs, i + 1, row, od)
    ELSE IF fs[i].id \notin DOMAIN row THEN Got("KeyError", od)
    ELSE ProjectRow(fs, i + 1, row, Put(od, fs[i].label.s, row[fs[i].id]))

\* for i, row in enumerate(data): ... data[i] = _row
RECURSIVE ProjectRows(_, _, _)
ProjectRows(fs, list, i) ==
    IF i > Len(list) THEN Got("", list)
    ELSE IF ProjectRow(fs, 1, list[i], <<>>).exc # ""
    THEN Got(ProjectRow(fs, 1, list[i], <<>>).exc, list)
    ELSE ProjectRows(fs, [list EXCEPT ![i] = ProjectRow(fs, 1, list[i], <<>>).val], i + 1)

\* replace labels and order columns; return data
Project ==
    /\ stage.op = "project"
    /\ rows' = ProjectRows(TheFields, rows, 1).val
    /\ stage' = Stage("done", 0, 0)
    /\ report' = IF ProjectRows(TheFields, rows, 1).exc # ""
                 THEN Raised(ProjectRows(TheFields, rows, 1).exc)
                 ELSE Returned(ProjectRows(TheFields, rows, 1).val)
    /\ UNCHANGED <<config, cache, calls, groupRow, log>>
    /\ UNCHANGED notReportVars

---------------------------------------------------------------------------
(* The reports that are examined *)

\* the longest list of group ids
MaxGroups == 2

GroupIds == {"g1", "g2"}

\* a field definition of the configuration
Config(id, type, value, label) ==
    [id |-> id, type |-> type, value |-> value, label |-> label]

\* one labeled metric; fields of every type with computed fields that
\* reference an earlier and a later computed field; labels that are empty or
\* shared; labeled fields that no stage sets
FieldLists ==
    {<<Config("cpu", "commodity", "CPU:values:avg", VStr("CPU"))>>,
     <<Config("site", "string", "lab", VStr("Site")),
       Config("name", "property", "displayName", VStr("Name")),
       Config("cpu", "commodity", "CPU:values:avg", VNone),
       Config("hosts", "commodity", "numHosts:value", VStr("Hosts")),
       Config("speed", "template", "cpuSpeed:value", VNone),
       Config("z", "computed", "$w + 1", VStr("Z")),
       Config("x", "computed", "$cpu * $speed", VNone),
       Config("y", "computed", "$x + $hosts", VStr("Y")),
       Config("w", "computed", "$cpu", VNone)>>,
     <<Config("a", "string", "p", VStr("")),
       Config("b", "string", "q", VStr("L")),
       Config("cpu", "commodity", "CPU:values:avg", VStr("L")),
       Config("c", "string", "r", VNone)>>,
     <<Config("cpu", "commodity", "CPU:values:avg", VStr("CPU")),
       Config("mem", "commodity", "Mem:values:avg", VStr("Mem")),
       Config("vms", "commodity", "numVMs:value", VStr("VMs")),
       Config("owner", "property", "source:owner", VStr("Owner")),
       Config("disk", "template", "diskSize:value", VStr("Disk")),
       Config("rate", "computed", "$mem / $cpu", VStr("Rate"))>>}

\* sortby: none, and the metric cpu in both directions
Sorts == {<<>>, <<"-cpu">>, <<"cpu">>}

\* an observation of get_entity_stats: its epoch, its name and values.avg
Obs(epoch, name, avg) ==
    Tree([epoch |-> VStr(epoch), name |-> VStr(name), values |-> Tree([avg |-> VInt(avg)]),
          value |-> VInt(avg)])

\* a resource of a template
Resource(name, value) == Tree([name |-> VStr(name), value |-> VInt(value)])

\* the entity of a group, found by search(uuid=group)
Entity(name) ==
    Tree([displayName |-> VStr(name), source |-> Tree([displayName |-> VStr("vc")])])

\* the answer of the connection to every request for the stats of a type
NoStats == [p \in GroupIds \X {CommodityTypes[i] : i \in 1..Len(CommodityTypes)} |->
               Got("", VSeq("list", <<>>))]

\* a platform that answers every request: cpu of g1 is 2 + 3 over two
\* hosts, cpu of g2 is 7; the clusters have observations of several epochs
Healthy ==
    [search |-> [g \in GroupIds |-> Got("", <<Entity(g)>>)],
     stats |-> (<<"g1", "PhysicalMachine">> :>
                    Got("", VSeq("list", <<Obs("CURRENT", "CPU", 2),
                                           Obs("CURRENT", "Mem", 10),
                                           Obs("HISTORICAL", "CPU", 3)>>)))
               @@ (<<"g2", "PhysicalMachine">> :>
                    Got("", VSeq("list", <<Obs("CURRENT", "CPU", 7)>>)))
               @@ (<<"g1", "Cluster">> :>
                    Got("", VSeq("list", <<Obs("HISTORICAL", "numHosts", 4),
                                           Obs("CURRENT", "numHosts", 2),
                                           Obs("CURRENT", "numVMs", 9),
                                           Obs("PROJECTED", "numHosts", 8)>>)))
               @@ (<<"g2", "Cluster">> :>
                    Got("", VSeq("list", <<Obs("CURRENT", "numHosts", 1),
                                           Obs("CURRENT", "numHosts", 1)>>)))
               @@ NoStats,
     template |-> ("vc::AVG:g1 for last 10 days" :>
                       Got("", Tree([computeResources |->
                                         VSeq("list", <<Resource("cpuSpeed", 3),
                                                        Resource("numOfCpu", 2)>>),
                                     storageResources |->
                                         VSeq("list", <<Resource("diskSize", 5)>>)])))]

\* a platform with gaps: no stats of the hosts of g1, a failing request for
\* those of g2, no entity g2, an observation without its values, a cluster
\* observation without epoch
Gaps ==
    [search |-> ("g1" :> Got("", <<Entity("g\\1")>>)) @@ ("g2" :> Got("", <<>>)),
     stats |-> (<<"g2", "PhysicalMachine">> :> Got("HTTPError", VNone))
               @@ (<<"g1", "Cluster">> :>
                    Got("", VSeq("list", <<Obs("CURRENT", "numVMs", 3),
                                           Tree([name |-> VStr("numVMs"),
                                                 value |-> VInt(1)])>>)))
               @@ NoStats,
     template |-> ("vc::AVG:g_1 for last 10 days" :> Got("HTTPError", VNone))]

\* a platform whose observations lack what the fields ask for
Partial ==
    [search |-> [g \in GroupIds |-> Got("HTTPError", <<>>)],
     stats |-> (<<"g1", "PhysicalMachine">> :>
                    Got("", VSeq("list", <<Obs("CURRENT", "CPU", 4),
                                           Tree([name |-> VStr("CPU"),
                                                 epoch |-> VStr("CURRENT")]),
                                           Obs("CURRENT", "CPU", 1)>>)))
               @@ (<<"g2", "PhysicalMachine">> :>
                    Got("", VSeq("list", <<Obs("CURRENT", "Mem", 6),
                                           Obs("CURRENT", "CPU", 0)>>)))
               @@ NoStats,
     template |-> <<>>]

Connections == {Healthy, Gaps, Partial}

InitReport ==
    /\ config \in [fields : FieldLists,
                   groups : UNION {[1..n -> GroupIds] : n \in 0..MaxGroups},
                   sort : Sorts,
                   stop_on_error : BOOLEAN,
                   conn : Connections]
    /\ cache = NewCache(config.groups)
    /\ calls = <<>>
    /\ groupRow = <<>>
    /\ rows = <<>>
    /\ stage = FirstStage(Len(config.groups))
    /\ log = <<>>
    /\ report = Running
    /\ EvaluateIdle /\ ComputeIdle /\ SortIdle /\ LaterIdle

NextReport ==
    \/ Literal
    \/ Property
    \/ Metric
    \/ Template
    \/ ComputedFields
    \/ GapFill
    \/ AppendRow
    \/ SortStage
    \/ Project

SpecReport == InitReport /\ [][NextReport]_vars

---------------------------------------------------------------------------
(* The calls of DataField.tree_get() that are examined *)

\* the depth of the nested mappings that are examined
TreeDepth == 2

\* the keys of the mappings that are examined
TreeKeys == {"a", "b"}

\* the nested mappings of depth at most depth over TreeKeys; a leaf is 1
RECURSIVE Mappings(_)
Mappings(depth) ==
    IF depth = 0 THEN {VInt(1)}
    ELSE {VInt(1)} \cup
         UNION {{Tree(m) : m \in [keys -> Mappings(depth - 1)]} : keys \in SUBSET TreeKeys}

\* the paths that are examined: present and absent keys, one and more
\* segments, a path that ends in a colon
TreePaths == {"a", "b", "c", "a:b", "a:a", "b:a", "a:b:a", "a:"}

\* DataField({'value': path, ...}) and the data handed to its tree_get()
InitTree ==
    /\ treeData \in {t \in Mappings(TreeDepth) : t.k = "tree"}
    /\ treePath \in TreePaths
    /\ treeGot = Running
    /\ EvaluateIdle /\ ComputeIdle /\ SortIdle /\ ReportIdle
    /\ FilterIdle /\ CastIdle /\ ActionsIdle

\* what a call that gave r ends as
Ended(r) == IF r.exc # "" THEN Raised(r.exc) ELSE Returned(r.val)

\* f.tree_get(data)
TreeGet ==
    /\ treeGot = Running
    /\ treeGot' = Ended(tree_get(treeData, "", treePath))
    /\ UNCHANGED <<treeData, treePath>>
    /\ UNCHANGED notTreeVars

NextTree == TreeGet

SpecTree == InitTree /\ [][NextTree]_vars

---------------------------------------------------------------------------
(* FilterSet (vmtreport/actions.py).  A dict is Tree(m); the defaultdict    *)
(* vc.util.to_defaultdict makes of a dict has the keys and values of the    *)
(* dict and compares equal to it.                                           *)

\* _filter_exclusions
filter_exclusions == {"scope", "scopes"}

\* {k: v for k, v in default.items() if k.lower() not in _filter_exclusions}
Stripped(m) == [k \in {x \in DOMAIN m : Lower(x) \notin filter_exclusions} |-> m[k]]

\* isinstance(override[k], dict) and k in default
DeepMerged(default, override, k) ==
    override.map[k].k = "tree" /\ k \in DOMAIN default.map

RECURSIVE merge(_, _)
\* FilterSet.merge(default, override).  default.items() raises
\* AttributeError when default is no dict.  The for loop assigns one key of
\* target per key of override; its result does not depend on their order.
merge(default, override) ==
    IF default.k # "tree" THEN Got("AttributeError", VNone)
    ELSE IF override.k = "none" THEN Got("", Tree(Stripped(default.map)))
    ELSE IF override.k # "tree" THEN Got("", override)
    ELSE IF \E k \in DOMAIN override.map :
                /\ DeepMerged(default, override, k)
                /\ merge(default.map[k], override.map[k]).exc # ""
    THEN Got("AttributeError", VNone)
    ELSE Got("", Tree([k \in DOMAIN Stripped(default.map) \cup DOMAIN override.map |->
                 IF k \notin DOMAIN override.map THEN default.map[k]
                 ELSE IF DeepMerged(default, override, k)
                 THEN merge(default.map[k], override.map[k]).val
                 ELSE override.map[k]]))

\* FilterSet.__init__: self.merge(base.values, config) if base else
\* self.merge(config); base is None or base.values
FilterSet(conf, base) ==
    IF base.k # "none" THEN merge(base, conf) ELSE merge(conf, VNone)

---------------------------------------------------------------------------
(* The filter sets that are examined *)

\* the number of distinct values a filter takes
FilterLeaves == 2

\* the keys of the filters: a plain key and a reserved key in another case
FilterKeys == {"a", "Scope"}

\* the values of a filter that are no dict
FilterScalars == {VInt(n) : n \in 1..FilterLeaves}

\* the dicts over FilterKeys whose values are drawn from values
DictsOf(values) ==
    UNION {{Tree(m) : m \in [keys -> values]} : keys \in SUBSET FilterKeys}

\* the configs that are examined: dicts of scalars and of dicts of scalars
FilterConfigs == DictsOf(FilterScalars \cup DictsOf(FilterScalars))

\* FilterSet(config, base) with base None or FilterSet(config0) of a config
InitFilter ==
    /\ filterConfig \in FilterConfigs
    /\ filterBase \in {VNone} \cup {FilterSet(c, VNone).val : c \in FilterConfigs}
    /\ filterValues = Running
    /\ EvaluateIdle /\ ComputeIdle /\ SortIdle /\ ReportIdle
    /\ TreeIdle /\ CastIdle /\ ActionsIdle

\* FilterSet(config, base)
Construct ==
    /\ filterValues = Running
    /\ filterValues' = Ended(FilterSet(filterConfig, filterBase))
    /\ UNCHANGED <<filterConfig, filterBase>>
    /\ UNCHANGED notFilterVars

NextFilter == Construct

SpecFilter == InitFilter /\ [][NextFilter]_vars

---------------------------------------------------------------------------
(* decimal.Decimal in the default context: 28 significant digits, rounding  *)
(* ROUND_HALF_EVEN.  A Decimal is [k, sign, int, exp]: its sign (0 or 1),    *)
(* its coefficient and its exponent, as in Decimal.as_tuple(); an int        *)
(* argument is the same record with k = "int" and exp = 0.  A coefficient    *)
(* is the sequence of its decimal digits, most significant first, as it      *)
(* does not fit a machine integer.                                           *)

\* getcontext().prec
prec == 28

Zeros(n) == [i \in 1..n |-> 0]

\* a coefficient without its leading zeros
StripLeading(a) ==
    IF \A i \in 1..Len(a) : a[i] = 0 THEN <<0>>
    ELSE SubSeq(a, CHOOSE i \in 1..Len(a) : a[i] # 0 /\ \A j \in 1..(i - 1) : a[j] = 0,
                Len(a))

\* the digit of a at 10^i; of a sequence of limbs, the limb at 10000^i
DigitAt(a, i) == IF i < Len(a) THEN a[Len(a) - i] ELSE 0

\* a + b carries into the digit at 10^i: some digit below it carries, and
\* those between pass the carry on
CarryInto(a, b, i) ==
    \E j \in 0..(i - 1) :
        /\ DigitAt(a, j) + DigitAt(b, j) >= 10
        /\ \A h \in (j + 1)..(i - 1) : DigitAt(a, h) + DigitAt(b, h) = 9

\* the digits of a + b, of width digits
AddDigits(a, b, width) ==
    [n \in 1..width |->
        (DigitAt(a, width - n) + DigitAt(b, width - n)
            + IF CarryInto(a, b, width - n) THEN 1 ELSE 0) % 10]

\* a + b of two coefficients
NatAdd(a, b) ==
    StripLeading(AddDigits(a, b, (IF Len(a) > Len(b) THEN Len(a) ELSE Len(b)) + 1))

\* products and quotients are computed on limbs of four digits, whose
\* products fit a machine integer: the limbs of a coefficient, most
\* significant first
ToLimbs(a) ==
    [n \in 1..((Len(a) + 3) \div 4) |->
        DigitAt(a, 4 * (((Len(a) + 3) \div 4) - n))
        + 10 * DigitAt(a, 4 * (((Len(a) + 3) \div 4) - n) + 1)
        + 100 * DigitAt(a, 4 * (((Len(a) + 3) \div 4) - n) + 2)
        + 1000 * DigitAt(a, 4 * (((Len(a) + 3) \div 4) - n) + 3)]

\* the coefficient of a sequence of limbs
FromLimbs(l) ==
    StripLeading([n \in 1..(4 * Len(l)) |->
        (DigitAt(l, (4 * Len(l) - n) \div 4) \div Pow(10, (4 * Len(l) - n) % 4)) % 10])

RECURSIVE Column(_, _, _, _)
\* the sum of the products of the limbs i..k of a with those of b at 10000^k
Column(a, b, k, i) ==
    IF i > k THEN 0
    ELSE DigitAt(a, i) * DigitAt(b, k - i) + Column(a, b, k, i + 1)

RECURSIVE CarryAt(_, _, _)
\* the carry of a * b into the limb at 10000^k
CarryAt(a, b, k) ==
    IF k = 0 THEN 0
    ELSE (Column(a, b, k - 1, 0) + CarryAt(a, b, k - 1)) \div 10000

\* a * b of two sequences of limbs
MulLimbs(a, b) ==
    StripLeading([n \in 1..(Len(a) + Len(b)) |->
        (Column(a, b, Len(a) + Len(b) - n, 0)
            + CarryAt(a, b, Len(a) + Len(b) - n)) % 10000])

\* a < b of two coefficients, or sequences of limbs, without leading zeros
NatLess(a, b) ==
    \/ Len(a) < Len(b)
    \/ /\ Len(a) = Len(b)
       /\ \E i \in 1..Len(a) : a[i] < b[i] /\ \A j \in 1..(i - 1) : a[j] = b[j]

\* a - b borrows from the limb at 10000^i
BorrowFrom(a, b, i) ==
    \E j \in 0..(i - 1) :
        /\ DigitAt(a, j) < DigitAt(b, j)
        /\ \A h \in (j + 1)..(i - 1) : DigitAt(a, h) = DigitAt(b, h)

\* a - b of two sequences of limbs, a >= b
SubLimbs(a, b) ==
    StripLeading([n \in 1..Len(a) |->
        (DigitAt(a, Len(a) - n) - DigitAt(b, Len(a) - n)
            - (IF BorrowFrom(a, b, Len(a) - n) THEN 1 ELSE 0) + 10000) % 10000])

RECURSIVE QuotientLimb(_, _, _, _)
\* the largest d of lo..hi with b * d <= cur, b * lo <= cur
QuotientLimb(cur, b, lo, hi) ==
    IF lo = hi THEN lo
    ELSE IF NatLess(cur, MulLimbs(b, <<(lo + hi + 1) \div 2>>))
    THEN QuotientLimb(cur, b, lo, ((lo + hi + 1) \div 2) - 1)
    ELSE QuotientLimb(cur, b, (lo + hi + 1) \div 2, hi)

RECURSIVE DivFrom(_, _, _, _)
DivPut(a, b, cur, q, d) == DivFrom(a, b, SubLimbs(cur, MulLimbs(b, <<d>>)), Append(q, d))

DivStep(a, b, cur, q) == DivPut(a, b, cur, q, QuotientLimb(cur, b, 0, 9999))

\* long division of limbs: the next limb of a brought down to the
\* remainder rem, q the limbs of the quotient so far
DivFrom(a, b, rem, q) ==
    IF Len(q) = Len(a) THEN [q |-> StripLeading(q), r |-> rem]
    ELSE DivStep(a, b, StripLeading(rem \o <<a[Len(q) + 1]>>), q)

\* a * b of two coefficients
NatMul(a, b) == FromLimbs(MulLimbs(ToLimbs(a), ToLimbs(b)))

\* the quotient and the remainder of limbs as coefficients
AsDigits(dm) == [q |-> FromLimbs(dm.q), r |-> FromLimbs(dm.r)]

\* divmod(a, b) of two coefficients, b > 0
NatDivMod(a, b) == AsDigits(DivFrom(ToLimbs(a), ToLimbs(b), <<0>>, <<>>))

\* _dec_from_triple(sign, coefficient, exponent)
D(sign, int, e) == [k |-> "Decimal", sign |-> sign, int |-> int, exp |-> e]

\* the int whose decimal literal is text
IntOf(text) ==
    [k |-> "int", sign |-> IF Ch(text, 1) = "-" THEN 1 ELSE 0,
     int |-> LET t == IF Ch(text, 1) = "-" THEN SubSeq(text, 2, Len(text)) ELSE text
             IN  [i \in 1..Len(t) |-> IndexOf(DIGITS, Ch(t, i)) - 1],
     exp |-> 0]

\* Decimal(value) of an int or a Decimal: exact
Decimal(value) == D(value.sign, value.int, value.exp)

IsZero(x) == x.int = <<0>>

\* _round_half_even: whether keeping the first keep digits rounds up
RoundsUp(digits, keep) ==
    /\ digits[keep + 1] >= 5
    /\ ~ /\ digits[keep + 1] = 5
         /\ \A i \in (keep + 2)..Len(digits) : digits[i] = 0
         /\ keep = 0 \/ digits[keep] % 2 = 0

\* the first keep digits of digits, rounded half-even
Rounded(digits, keep) ==
    IF RoundsUp(digits, keep)
    THEN NatAdd(IF keep = 0 THEN <<0>> ELSE SubSeq(digits, 1, keep), <<1>>)
    ELSE IF keep = 0 THEN <<0>> ELSE SubSeq(digits, 1, keep)

\* Decimal._fix(context): round to prec significant digits
Fix(x) ==
    IF Len(x.int) <= prec THEN x
    ELSE IF Len(Rounded(x.int, prec)) > prec
    THEN D(x.sign, SubSeq(Rounded(x.int, prec), 1, prec), x.exp + Len(x.int) - prec + 1)
    ELSE D(x.sign, Rounded(x.int, prec), x.exp + Len(x.int) - prec)

\* Decimal.__mul__
Mul(x, y) ==
    Fix(D((x.sign + y.sign) % 2, NatMul(x.int, y.int), x.exp + y.exp))

RECURSIVE Power(_, _)
\* pow(x, n), n a natural number and x^n of at most prec digits
Power(x, n) == IF n = 0 THEN D(0, <<1>>, 0) ELSE Mul(x, Power(x, n - 1))

RECURSIVE Reduced(_, _, _)
\* an exact quotient brought as close to the ideal exponent as possible
Reduced(coeff, e, ideal) ==
    IF e < ideal /\ coeff[Len(coeff)] = 0 /\ Len(coeff) > 1
    THEN Reduced(SubSeq(coeff, 1, Len(coeff) - 1), e + 1, ideal)
    ELSE [int |-> coeff, exp |-> e]

\* the quotient dm of Decimal.__truediv__ at exponent e
Quotient(sign, dm, e, ideal) ==
    IF dm.r # <<0>>
    THEN D(sign, IF dm.q[Len(dm.q)] % 5 = 0 THEN NatAdd(dm.q, <<1>>) ELSE dm.q, e)
    ELSE D(sign, Reduced(dm.q, e, ideal).int, Reduced(dm.q, e, ideal).exp)

\* shift of Decimal.__truediv__
Shift(x, y) == Len(y.int) - Len(x.int) + prec + 1

\* Decimal.__truediv__, y not zero
TrueDiv(x, y) ==
    IF IsZero(x) THEN D((x.sign + y.sign) % 2, <<0>>, x.exp - y.exp)
    ELSE Fix(Quotient((x.sign + y.sign) % 2,
                      IF Shift(x, y) >= 0
                      THEN NatDivMod(x.int \o Zeros(Shift(x, y)), y.int)
                      ELSE NatDivMod(x.int, y.int \o Zeros(-Shift(x, y))),
                      x.exp - y.exp - Shift(x, y), x.exp - y.exp))

\* Decimal._rescale(e, ROUND_HALF_EVEN)
Rescale(x, e) ==
    IF IsZero(x) THEN D(x.sign, <<0>>, e)
    ELSE IF x.exp >= e THEN D(x.sign, x.int \o Zeros(x.exp - e), e)
    ELSE IF Len(x.int) + x.exp - e < 0 THEN D(x.sign, <<0>>, e)
    ELSE D(x.sign, Rounded(x.int, Len(x.int) + x.exp - e), e)

\* round(x, n): x.quantize(Decimal('1E-n')), InvalidOperation when the
\* result has more than prec digits
Round(x, n) ==
    IF ~IsZero(x) /\ Len(x.int) + x.exp + n > prec THEN Got("InvalidOperation", VNone)
    ELSE IF Len(Rescale(x, -n).int) > prec THEN Got("InvalidOperation", VNone)
    ELSE Got("", Rescale(x, -n))

\* x == y of two Decimals
Equal(x, y) ==
    \/ IsZero(x) /\ IsZero(y)
    \/ /\ x.sign = y.sign
       /\ IF x.exp >= y.exp
          THEN StripLeading(x.int \o Zeros(x.exp - y.exp)) = StripLeading(y.int)
          ELSE StripLeading(x.int) = StripLeading(y.int \o Zeros(y.exp - x.exp))

---------------------------------------------------------------------------
(* unit_cast, mem_cast, cpu_cast (vmtreport/util.py) *)

\* list.index(x): the position of x, 0 when x is not in the list
Index(list, x) ==
    IF \E i \in 1..Len(list) : list[i] = x
    THEN CHOOSE i \in 1..Len(list) : list[i] = x /\ \A j \in 1..(i - 1) : list[j] # x
    ELSE 0

\* return round(res, precision) if precision else res
Finish(res, precision) ==
    IF Truthy(precision) THEN Round(res, precision.n) ELSE Got("", res)

\* unit_cast(value, ufrom, uto, factor, unit_list, precision); list.index
\* raises ValueError for a unit that is not in unit_list
unit_cast(value, ufrom, uto, factor, unit_list, precision) ==
    IF Index(unit_list, uto) = 0 \/ Index(unit_list, ufrom) = 0
    THEN Got("ValueError", VNone)
    ELSE IF Index(unit_list, uto) - Index(unit_list, ufrom) <= 0
    THEN Finish(Mul(Decimal(value),
                    Power(Decimal(factor),
                          Abs(Index(unit_list, uto) - Index(unit_list, ufrom)))),
                precision)
    ELSE Finish(Mul(Decimal(value),
                    TrueDiv(D(0, <<1>>, 0),
                            Power(Decimal(factor),
                                  Abs(Index(unit_list, uto) - Index(unit_list, ufrom))))),
                precision)

\* the keyword arguments a call leaves out take their defaults
Default(given, default) == IF given = <<>> THEN default ELSE given[1]

\* mem_cast(value, unit='GB', factor=1024, src_unit='KB', precision=False)
mem_cast(value, unit, factor, src_unit, precision) ==
    unit_cast(value, Upper(Default(src_unit, "KB")), Upper(Default(unit, "GB")),
              Default(factor, IntOf("1024")),
              <<"B", "KB", "MB", "GB", "TB", "PB", "EB", "ZB", "YB">>,
              Default(precision, VBool(FALSE)))

\* cpu_cast(value, unit='GHZ', factor=1000, src_unit='MZH', precision=False)
cpu_cast(value, unit, factor, src_unit, precision) ==
    unit_cast(value, Upper(Default(src_unit, "MZH")), Upper(Default(unit, "GHZ")),
              Default(factor, IntOf("1000")),
              <<"HZ", "MHZ", "GHZ", "THZ", "PHZ">>,
              Default(precision, VBool(FALSE)))

---------------------------------------------------------------------------
(* The calls of unit_cast, mem_cast and cpu_cast that are examined.         *)
(* castArgs is [fn, value, ufrom, uto, factor, unit_list, precision, leg,   *)
(* first]: ufrom is <<>> when the call leaves the source unit out, leg is 2 *)
(* when the call converts the result of a first call back, and first is    *)
(* the value the first call was given.                                     *)

\* the largest precision that is examined
MaxPrecision == 2

\* precision: False, or a number of fractional digits
Precisions == {VBool(FALSE)} \cup {VInt(n) : n \in 0..MaxPrecision}

Args(fn, value, ufrom, uto, factor, unit_list, precision) ==
    [fn |-> fn, value |-> value, ufrom |-> ufrom, uto |-> uto, factor |-> factor,
     unit_list |-> unit_list, precision |-> precision, leg |-> 1, first |-> value]

\* calls of unit_cast on a scale of four units: the units of the scale and
\* one that is not on it, the factors 10 and 3
UnitCalls ==
    {Args("unit_cast", IntOf(v), <<a>>, b, IntOf(f), <<"A", "B", "C", "D">>, p) :
        v \in {"10", "1", "25", "21", "2115", "3"}, a \in {"A", "B", "D", "E"},
        b \in {"A", "B", "D", "E"}, f \in {"10", "3"}, p \in Precisions}

\* calls of mem_cast with and without src_unit
MemCalls ==
    {Args("mem_cast", IntOf(v), a, b, <<>>, <<>>, p) :
        v \in {"2", "2048", "256", "3", "1536"},
        a \in {<<>>, <<"B">>, <<"KB">>, <<"TB">>},
        b \in {"B", "KB", "gb", "TB", "PB"}, p \in Precisions}

\* calls of cpu_cast with and without src_unit
CpuCalls ==
    {Args("cpu_cast", IntOf(v), a, b, <<>>, <<>>, p) :
        v \in {"2", "1500", "2000000"},
        a \in {<<>>, <<"HZ">>, <<"MHZ">>, <<"GHZ">>},
        b \in {"HZ", "KHZ", "MHZ", "GHZ"}, p \in Precisions}

InitCast ==
    /\ castArgs \in UnitCalls \cup MemCalls \cup CpuCalls
    /\ castResult = Running
    /\ EvaluateIdle /\ ComputeIdle /\ SortIdle /\ ReportIdle
    /\ TreeIdle /\ FilterIdle /\ ActionsIdle

\* the call castArgs stands for
Call(args) ==
    CASE args.fn = "unit_cast" ->
             unit_cast(args.value, args.ufrom[1], args.uto, args.factor, args.unit_list,
                       args.precision)
      [] args.fn = "mem_cast" ->
             mem_cast(args.value, <<args.uto>>, args.factor, args.ufrom, <<args.precision>>)
      [] args.fn = "cpu_cast" ->
             cpu_cast(args.value, <<args.uto>>, args.factor, args.ufrom, <<args.precision>>)

\* the call returns or raises
Cast ==
    /\ castResult = Running
    /\ castResult' = Ended(Call(castArgs))
    /\ UNCHANGED castArgs
    /\ UNCHANGED notCastVars

\* the caller converts the unrounded result back to the unit it came from
CastBack ==
    /\ castResult.st = "returned"
    /\ castArgs.leg = 1 /\ castArgs.ufrom # <<>> /\ castArgs.precision = VBool(FALSE)
    /\ castArgs' = [castArgs EXCEPT !.value = castResult.val, !.ufrom = <<castArgs.uto>>,
                                    !.uto = castArgs.ufrom[1], !.leg = 2]
    /\ castResult' = Running
    /\ UNCHANGED notCastVars

NextCast == Cast \/ CastBack

SpecCast == InitCast /\ [][NextCast]_vars

---------------------------------------------------------------------------
(* Scope, ActionSet and ActionDataReport (vmtreport/actions.py), with the *)
(* paged retrieval of Targets._get and of Groups' cluster enumeration     *)

\* the values of the enum ScopeTypes
ScopeTypes == {"market", "group", "entity", "target"}

\* the existence checks of Scope.get_scope_type in the order they are made,
\* each with the type it stands for
Probes ==
    <<[method |-> "get_markets", type |-> "market"],
      [method |-> "get_entities", type |-> "entity"],
      [method |-> "get_groups", type |-> "group"],
      [method |-> "get_targets", type |-> "target"]>>

\* a __try_method that lets an HTTP 400-class error through
TryMethodStrict(answer) ==
    IF answer = "found" THEN Got("", TRUE)
    ELSE IF answer = "empty" THEN Got("", FALSE)
    ELSE Got(answer, FALSE)

\* Scope.__try_method, answer what the connection does with the call: "found"
\* for a result that is not empty, "empty", or the exception it raises
TryMethod(answer) ==
    IF answer = "found" THEN Got("", TRUE)
    ELSE IF answer \in {"empty", "HTTP400Error"} THEN Got("", FALSE)
    ELSE Got(answer, FALSE)

\* _vc_method of ActionSet.__call for a scope of the type, "" when it raises
\* TypeError
ActionCall(type) ==
    IF type = "market" THEN "get_actions"
    ELSE IF type = "entity" THEN "get_entity_actions"
    ELSE IF type = "group" THEN "get_group_actions"
    ELSE IF type = "target" THEN "get_target_actions"
    ELSE ""

\* the ActionSet of a scope: the uuid and type of its Scope ("" for None) and
\* its dto
ActionSet(uuid, type, dto) == [uuid |-> uuid, type |-> type, dto |-> dto]

\* for f in [x for x in self.fields.values() if x.label]:
\*     _row[f.label] = row.get(f.id, None)
RECURSIVE LabelRow(_, _, _, _)
LabelRow(fs, i, row, od) ==
    IF i > Len(fs) THEN od
    ELSE IF ~Labeled(fs[i]) THEN LabelRow(fs, i + 1, row, od)
    ELSE LabelRow(fs, i + 1, row,
                  Put(od, fs[i].label.s,
                      IF fs[i].id \in DOMAIN row THEN row[fs[i].id] ELSE VNone))

\* for i, row in enumerate(data): ... page[i] = _row
LabelRows(fs, list) == [i \in 1..Len(list) |-> LabelRow(fs, 1, list[i], <<>>)]

\* the row of one action: literals, properties, computed fields
ActionRow(fs, action) ==
    IF SetProperties(fs, 1, action, SetLiterals(fs, 1, <<>>)).exc # ""
    THEN SetProperties(fs, 1, action, SetLiterals(fs, 1, <<>>))
    ELSE ComputeFields(fs, 1, SetProperties(fs, 1, action, SetLiterals(fs, 1, <<>>)).val)

\* for action in _cache: ... data = [*data, _row]
RECURSIVE ActionRows(_, _, _, _)
ActionRows(fs, found, i, got) ==
    IF i > Len(found) THEN Got("", got)
    ELSE IF ActionRow(fs, found[i]).exc # "" THEN Got(ActionRow(fs, found[i]).exc, got)
    ELSE ActionRows(fs, found, i + 1, Append(got, ActionRow(fs, found[i]).val))

\* [x['uuid'] for x in data]
RECURSIVE Uuids(_, _)
Uuids(page, i) ==
    IF i > Len(page) THEN Got("", <<>>)
    ELSE IF GetItem(page[i], "uuid").exc # "" THEN Got(GetItem(page[i], "uuid").exc, <<>>)
    ELSE IF Uuids(page, i + 1).exc # "" THEN Uuids(page, i + 1)
    ELSE Got("", <<GetItem(page[i], "uuid").val>> \o Uuids(page, i + 1).val)

---------------------------------------------------------------------------
(* The action reports and paged retrievals that are examined *)

\* the longest list of scopes
MaxScopes == 2

\* the most pages a paged result has
MaxPages == 2

\* a scope descriptor: {'id': id, 'type': type}, type "" when it has none
Descriptor(id, type) == [id |-> id, type |-> type, filters |-> VNone]

\* scopes whose type is probed, declared in mixed case, or declared wrongly
Descriptors ==
    {Descriptor("Market", ""), Descriptor("g1", ""), Descriptor("g1", "Group"),
     Descriptor("t1", ""), Descriptor("x1", ""), Descriptor("x1", "bogus"),
     Descriptor("b1", "")}

\* what the connection does with the four existence checks of a uuid: the
\* market; a group that is also a target; a target; a uuid nothing knows; a
\* uuid whose entity check fails with a server error
Answers(uuid) ==
    IF uuid = "Market" THEN <<"found", "empty", "empty", "empty">>
    ELSE IF uuid = "g1" THEN <<"HTTP400Error", "empty", "found", "found">>
    ELSE IF uuid = "t1" THEN <<"empty", "HTTP400Error", "empty", "found">>
    ELSE IF uuid = "x1" THEN <<"HTTP400Error", "empty", "empty", "HTTP400Error">>
    ELSE <<"empty", "HTTP500Error", "found", "found">>

\* the n-th item the platform lists for a uuid
Item(uuid, n) ==
    Tree([uuid |-> VStr(uuid \o "-" \o Ch(DIGITS, n + 1)), n |-> VInt(n),
          target |-> Tree([uuid |-> VStr(uuid)])])

\* the paged result for a uuid: two items a page, the read of page
\* p.fault failing when p.fault > 0
Pages(p, uuid) ==
    [j \in 1..p.pages |->
        IF j = p.fault THEN Got("HTTP500Error", <<>>)
        ELSE Got("", <<Item(uuid, 2 * j - 1), Item(uuid, 2 * j)>>)]

Platforms ==
    {[pages |-> 0, fault |-> 0]} \cup {[pages |-> MaxPages, fault |-> f] : f \in 0..MaxPages}

ScopeLists == UNION {[1..n -> Descriptors] : n \in 0..MaxScopes}

\* options['filters']: None, a dict without scopes, or one with scopes
Filters ==
    {VNone, Tree([states |-> VStr("READY")])}
    \cup {Tree([scopes |-> l, states |-> VStr("READY")]) : l \in ScopeLists}

ActionFields ==
    <<Config("site", "string", "lab", VStr("Site")),
      Config("id", "property", "uuid", VStr("Action")),
      Config("scope", "property", "target:uuid", VStr("Scope")),
      Config("n", "property", "n", VNone)>>

\* a step of the report or retrieval: the operation, the scope or action set
\* it is at, the probe it is at
Point(op, i, k) == [op |-> op, i |-> i, k |-> k]

\* a request made of the connection
Req(method, uuid, market) == [method |-> method, uuid |-> uuid, market |-> market]

InitActions ==
    /\ options \in
         [report : {"actions"}, filters : Filters, fields : {ActionFields},
          sortby : {<<>>, <<"-n">>}, stop_on_error : BOOLEAN]
         \cup [report : {"targets", "clusters"}, filters : {VNone},
               fields : {ActionFields}, sortby : {<<>>}, stop_on_error : BOOLEAN]
    /\ platform \in Platforms
    /\ sets = <<>>
    /\ requests = <<>>
    /\ pager = <<>>
    /\ actions = <<>>
    /\ table = <<>>
    /\ point = Point("init", 0, 0)
    /\ ended = Running
    /\ EvaluateIdle /\ ComputeIdle /\ SortIdle /\ ReportIdle
    /\ TreeIdle /\ FilterIdle /\ CastIdle

\* options['filters']['scopes']
TheScopes == options.filters.map.scopes

\* self.fields.values()
ActionFieldsOf == Fields(options.fields)

\* except Exception: if self.stop_error: raise, else: pass: construction
\* ends, raising exc or with the action sets built so far
Handled(exc) ==
    IF options.stop_on_error
    THEN /\ ended' = Raised(exc)
         /\ point' = Point("failed", 0, 0)
    ELSE /\ point' = Point("apply", 0, 0)
         /\ UNCHANGED ended

\* FilterSet(s.get('filters'), self.filters)
ScopeFilter(s) == FilterSet(s.filters, FilterSet(options.filters, VNone).val)

\* self.__sets[s['id']] = ActionSet(...) of scope i with the type, and the
\* next turn of the loop
Built(i, type) ==
    /\ sets' = Put(sets, TheScopes[i].id,
                   ActionSet(TheScopes[i].id, type, ScopeFilter(TheScopes[i]).val))
    /\ point' = IF i < Len(TheScopes) THEN Point("scope", i + 1, 0)
                ELSE Point("apply", 0, 0)
    /\ UNCHANGED ended

\* ActionDataReport.__init__ down to the head of the loop over the scopes;
\* the default scope is a dict, whose keys the loop goes over
NewReport ==
    /\ point.op = "init"
    /\ options.report = "actions"
    /\ IF ~Truthy(options.filters) THEN Handled("AttributeError")
       ELSE IF "scopes" \notin DOMAIN options.filters.map THEN Handled("KeyError")
       ELSE /\ point' = IF TheScopes = <<>> THEN Point("apply", 0, 0)
                        ELSE Point("scope", 1, 0)
            /\ UNCHANGED ended
    /\ UNCHANGED <<options, platform, sets, requests, pager, actions, table>>
    /\ UNCHANGED notActionVars

\* one turn of the loop down to the first probe: the filter set of the scope
\* and Scope.__init__ with a declared type
NewScope ==
    /\ point.op = "scope"
    /\ LET s == TheScopes[point.i]
       IN  IF ScopeFilter(s).exc # ""
           THEN Handled(ScopeFilter(s).exc) /\ UNCHANGED sets
           ELSE IF s.type = ""
           THEN /\ point' = Point("probe", point.i, 1)
                /\ UNCHANGED <<sets, ended>>
           ELSE IF Lower(s.type) \in ScopeTypes
           THEN Built(point.i, Lower(s.type))
           ELSE Handled("ValueError") /\ UNCHANGED sets
    /\ UNCHANGED <<options, platform, requests, pager, actions, table>>
    /\ UNCHANGED notActionVars

\* one existence check of Scope.get_scope_type, and the rest of the turn
\* when it is the last one made
Probe ==
    /\ point.op = "probe"
    /\ LET uuid == TheScopes[point.i].id
           tried == TryMethod(Answers(uuid)[point.k])
       IN  /\ requests' = Append(requests, Req(Probes[point.k].method, uuid, ""))
           /\ IF tried.exc # "" THEN Handled(tried.exc) /\ UNCHANGED sets
              ELSE IF tried.val THEN Built(point.i, Probes[point.k].type)
              ELSE IF point.k < Len(Probes)
              THEN /\ point' = Point("probe", point.i, point.k + 1)
                   /\ UNCHANGED <<sets, ended>>
              ELSE IF options.stop_on_error
              THEN Handled("ValueError") /\ UNCHANGED sets
              ELSE Built(point.i, "")
    /\ UNCHANGED <<options, platform, pager, actions, table>>
    /\ UNCHANGED notActionVars

\* apply() down to the head of the loop over the action sets
ApplyActions ==
    /\ point.op = "apply"
    /\ table' = <<>>
    /\ point' = IF sets = <<>> THEN Point("finish", 0, 0) ELSE Point("request", 1, 0)
    /\ UNCHANGED <<options, platform, sets, requests, pager, actions, ended>>
    /\ UNCHANGED notActionVars

\* get_actions() down to the head of its loop: ActionSet.__call
GetActions ==
    /\ point.op = "request"
    /\ LET set == sets[point.i][2]
       IN  IF ActionCall(set.type) = ""
           THEN /\ ended' = Raised("TypeError")
                /\ point' = Point("done", 0, 0)
                /\ UNCHANGED <<requests, pager, actions>>
           ELSE /\ requests' = Append(requests,
                                 IF set.type = "market"
                                 THEN Req(ActionCall(set.type), "", set.uuid)
                                 ELSE Req(ActionCall(set.type), set.uuid, ""))
                /\ pager' = Pages(platform, set.uuid)
                /\ actions' = <<>>
                /\ point' = Point("page", point.i, 0)
                /\ UNCHANGED ended
    /\ UNCHANGED <<options, platform, sets, table>>
    /\ UNCHANGED notActionVars

\* Targets._get() down to the head of its loop
GetTargets ==
    /\ point.op = "init"
    /\ options.report = "targets"
    /\ requests' = Append(requests, Req("get_targets", "", ""))
    /\ pager' = Pages(platform, "targets")
    /\ point' = Point("page", 0, 0)
    /\ UNCHANGED <<options, platform, sets, actions, table, ended>>
    /\ UNCHANGED notActionVars

\* Groups.__init__ of type cluster without names down to the head of its loop
SearchClusters ==
    /\ point.op = "init"
    /\ options.report = "clusters"
    /\ requests' = Append(requests, Req("search", "", "Market"))
    /\ pager' = Pages(platform, "clusters")
    /\ point' = Point("page", 0, 0)
    /\ UNCHANGED <<options, platform, sets, actions, table, ended>>
    /\ UNCHANGED notActionVars

\* whether the loop that reads the pages is inside a try
Guarded(site) == site \in {"actions", "targets"}

\* what one turn of the loop appends
Extension(site, page) == IF site = "clusters" THEN Uuids(page, 1) ELSE Got("", page)

\* while not resp.complete: one turn, reading resp.next
ReadPage ==
    /\ point.op = "page"
    /\ pager # <<>>
    /\ pager' = Tail(pager)
    /\ LET site == options.report
           read == IF Head(pager).exc # "" THEN Head(pager)
                   ELSE Extension(site, Head(pager).val)
       IN  IF read.exc = ""
           THEN /\ actions' = actions \o read.val
                /\ UNCHANGED <<point, ended>>
           ELSE IF Guarded(site) /\ ~options.stop_on_error
           THEN /\ point' = Point("left", point.i, 0)
                /\ UNCHANGED <<actions, ended>>
           ELSE /\ ended' = Raised(read.exc)
                /\ point' = Point("done", 0, 0)
                /\ UNCHANGED actions
    /\ UNCHANGED <<options, platform, sets, requests, table>>
    /\ UNCHANGED notActionVars

\* the loop that reads the pages is over
LoopOver == (point.op = "page" /\ pager = <<>>) \/ point.op = "left"

\* the rows of the actions get_actions() returned, and the next action set
BuildRows ==
    /\ LoopOver
    /\ options.report = "actions"
    /\ LET built == ActionRows(ActionFieldsOf, actions, 1, table)
       IN  IF built.exc # ""
           THEN /\ ended' = Raised(built.exc)
                /\ point' = Point("done", 0, 0)
                /\ UNCHANGED table
           ELSE /\ table' = built.val
                /\ point' = IF point.i < Len(sets) THEN Point("request", point.i + 1, 0)
                            ELSE Point("finish", 0, 0)
                /\ UNCHANGED ended
    /\ UNCHANGED <<options, platform, sets, requests, pager, actions>>
    /\ UNCHANGED notActionVars

\* Targets.get(), Groups.ids: what the loop has gathered
ReturnList ==
    /\ LoopOver
    /\ options.report # "actions"
    /\ ended' = Returned(actions)
    /\ point' = Point("done", 0, 0)
    /\ UNCHANGED <<options, platform, sets, requests, pager, actions, table>>
    /\ UNCHANGED notActionVars

\* sort, replace labels and order columns; return data
SortAndLabel ==
    /\ point.op = "finish"
    /\ LET ordered == SortRowsBy(table, options.sortby)
       IN  IF ordered.exc # ""
           THEN ended' = Raised(ordered.exc) /\ UNCHANGED table
           ELSE /\ table' = LabelRows(ActionFieldsOf, ordered.val)
                /\ ended' = Returned(LabelRows(ActionFieldsOf, ordered.val))
    /\ point' = Point("done", 0, 0)
    /\ UNCHANGED <<options, platform, sets, requests, pager, actions>>
    /\ UNCHANGED notActionVars

NextActions ==
    \/ NewReport
    \/ NewScope
    \/ Probe
    \/ ApplyActions
    \/ GetActions
    \/ GetTargets
    \/ SearchClusters
    \/ ReadPage
    \/ BuildRows
    \/ ReturnList
    \/ SortAndLabel

SpecActions == InitActions /\ [][NextActions]_vars

---------------------------------------------------------------------------
(* Properties of evaluate() *)

\* the call has returned or raised
Finished == pc = "done"

\* the statement step of evaluate() has run
Reached(step) == \E i \in 1..Len(steps) : steps[i] = step

\* the two characters __ somewhere in s
ContainsDunder(s) == \E i \in 1..(Len(s) - 1) : SubSeq(s, i, i + 1) = "__"

RECURSIVE HasClass(_, _)
\* node, or a node below it at any depth, has a class of classes
HasClass(node, classes) ==
    node.t \in classes \/ \E i \in 1..Len(node.kids) : HasClass(node.kids[i], classes)

RECURSIVE NamesOf(_)
\* the identifiers of the Name nodes of a tree
NamesOf(node) ==
    (IF node.t = "Name" THEN {node.s} ELSE {})
    \cup UNION {NamesOf(node.kids[i]) : i \in 1..Len(node.kids)}

\* the parsed expression refers to a name whose lowercased text is on the deny-list
DeniedNameIn(t) == \E n \in NamesOf(t) : Lower(n) \in INVALID_NAMES

Parsed == tree # NoTree

\* C1: an input with __ anywhere in it is refused with SyntaxError by the
\* first statement: it is never parsed, walked, compiled or evaluated.
C1_DunderRefusedBeforeParse ==
    ContainsDunder(exp) =>
        /\ ~Reached("parse") /\ ~Reached("walk")
        /\ ~Reached("compile") /\ ~Reached("eval")
        /\ tree = NoTree /\ cobj = NoCode /\ executed = <<>>
        /\ Finished => result = Raised("SyntaxError")

\* C1: a refused input whose __ is inside a string literal
C1_Witness ==
    /\ Finished /\ ContainsDunder(exp) /\ Ch(exp, 1) = "'"
    /\ steps = <<"dunder">> /\ result = Raised("SyntaxError")

\* the constructs of C2
C2_Constructs == {"Lambda", "GeneratorExp", "Await", "Yield", "YieldFrom", "NamedExpr"}

\* C2: an expression with a lambda, a generator expression, an await, a
\* yield, a yield from or a walrus at any depth of its tree is refused with
\* SyntaxError and neither compiled nor evaluated.
C2_ConstructsRefused ==
    (Parsed /\ HasClass(tree, C2_Constructs)) =>
        /\ ~Reached("compile") /\ ~Reached("eval") /\ executed = <<>>
        /\ Finished => result = Raised("SyntaxError")

\* C2: a refused expression with the construct below its top node and no
\* deny-listed name
C2_Witness ==
    /\ Finished /\ Parsed /\ tree.kids[1].t \notin C2_Constructs
    /\ HasClass(tree, C2_Constructs) /\ ~DeniedNameIn(tree)
    /\ ~ContainsDunder(exp) /\ result = Raised("SyntaxError")

\* the comprehensions of C3
C3_Comprehensions == {"ListComp", "SetComp", "DictComp"}

\* C3: an expression with a list, set or dict comprehension at any depth
\* is refused with SyntaxError.
C3_ComprehensionsRefused ==
    (Finished /\ Parsed /\ HasClass(tree, C3_Comprehensions)) =>
        result = Raised("SyntaxError")

\* C4: an expression that refers to a name whose lowercased text is on the
\* deny-list, in any letter case, is refused with SyntaxError and never
\* evaluated.
C4_DeniedNamesRefused ==
    (Parsed /\ DeniedNameIn(tree)) =>
        /\ ~Reached("eval") /\ executed = <<>>
        /\ Finished => result = Raised("SyntaxError")

\* C4: a refused call whose callee is a deny-listed name in another letter case
C4_Witness ==
    /\ Finished /\ Parsed /\ tree.kids[1].t = "Call"
    /\ tree.kids[1].kids[1].t = "Name"
    /\ tree.kids[1].kids[1].s \notin INVALID_NAMES
    /\ Lower(tree.kids[1].kids[1].s) \in INVALID_NAMES
    /\ result = Raised("SyntaxError")

\* C5 as the specification words it: a reference to a deny-listed name is
\* refused with NameError.
C5_DeniedNameRaisesNameError ==
    (Finished /\ Parsed /\ DeniedNameIn(tree)) => result = Raised("NameError")

\* C5: a reference to a deny-listed name is refused with SyntaxError, the
\* class of the refusals of constructs and of __; NameError is raised by
\* the eval step only, for an expression with no deny-listed name.
C5_DeniedNameRaisesSyntaxError ==
    /\ (Finished /\ Parsed /\ DeniedNameIn(tree)) => result = Raised("SyntaxError")
    /\ (Finished /\ result = Raised("NameError")) =>
            Reached("eval") /\ ~DeniedNameIn(tree)

\* C5: a refused expression that is one deny-listed name, with no construct
\* of C2 in it
C5_Witness ==
    /\ Finished /\ Parsed /\ tree.kids[1].t = "Name" /\ DeniedNameIn(tree)
    /\ steps = <<"dunder", "parse", "walk">> /\ result = Raised("SyntaxError")

\* the attribute and reflection names of C6
C6_ReflectionNames ==
    {"getattr", "setattr", "delattr", "hasattr", "dir", "globals", "locals", "vars"}

\* C6: an expression that refers to an attribute or reflection name, in any
\* letter case, is refused before the eval step.
C6_ReflectionNamesRefused ==
    (Parsed /\ \E n \in NamesOf(tree) : Lower(n) \in C6_ReflectionNames) =>
        ~Reached("eval")

\* the builtins C7 names as not resolving
C7_OtherBuiltins == {"exit", "breakpoint", "memoryview", "vars"}

\* C7: an evaluated expression that refers to a builtin which is neither
\* whitelisted nor deny-listed fails with NameError.
C7_OtherBuiltinsUnresolved ==
    (Finished /\ Reached("eval") /\ NamesOf(tree) \cap C7_OtherBuiltins # {}) =>
        result = Raised("NameError")

\* C8: what the eval step loads, calls and returns is what it would with
\* nothing bound by the caller; an expression that is a name of the caller's
\* fails with NameError, and os.system('') raises NameError at its first
\* name and calls nothing.
C8_CallerScopeUnseen ==
    /\ (Finished /\ Reached("eval")) =>
            /\ executed = Eval(tree, <<>>, {}).trace
            /\ result.exc = Eval(tree, <<>>, {}).exc
            /\ result.val = Eval(tree, <<>>, {}).val
    /\ (Finished /\ Parsed /\ tree.kids[1].t = "Name" /\ tree.kids[1].s \in caller) =>
            /\ steps = <<"dunder", "parse", "walk", "compile", "eval">>
            /\ result = Raised("NameError")
    /\ (Finished /\ exp = "os.system('')") =>
            result = Raised("NameError") /\ executed = <<"LOAD_NAME os">>

\* C8: os.system('') evaluated by a caller that has imported os
C8_Witness ==
    /\ Finished /\ exp = "os.system('')" /\ "os" \in caller
    /\ Reached("eval") /\ result = Raised("NameError")

\* C9: an input that is not one expression is refused with SyntaxError by
\* the parse step: no tree is kept, nothing is walked, compiled or evaluated.
C9_StatementsRefusedByParse ==
    (exp \in Statements /\ Finished) =>
        /\ steps = <<"dunder", "parse">>
        /\ result = Raised("SyntaxError")
        /\ tree = NoTree /\ cobj = NoCode /\ executed = <<>>

\* C9: the assignment a = 15 refused by the parse step
C9_Witness ==
    /\ Finished /\ exp = "a = 15" /\ steps = <<"dunder", "parse">>
    /\ result = Raised("SyntaxError")

\* the statements of evaluate() in their order
StepOrder == <<"dunder", "parse", "walk", "compile", "eval">>

\* C10: the statements run in the order dunder check, parse, walk, compile,
\* eval; compile and eval run only for an input that has no __, parsed, and
\* has no refused construct or name; an input refused earlier runs nothing,
\* the escape payload first of all.
C10_StepsInOrder ==
    /\ Len(steps) <= Len(StepOrder) /\ steps = SubSeq(StepOrder, 1, Len(steps))
    /\ Reached("compile") =>
            /\ ~ContainsDunder(exp) /\ Parsed
            /\ ~HasClass(tree, C2_Constructs) /\ ~DeniedNameIn(tree)
    /\ Reached("eval") => cobj # NoCode
    /\ ~Reached("eval") => executed = <<>>
    /\ (Finished /\ exp = EscapePayload) =>
            steps = <<"dunder">> /\ result = Raised("SyntaxError")

\* C10: the escape payload refused with nothing run
C10_Witness ==
    /\ Finished /\ exp = EscapePayload /\ steps = <<"dunder">>
    /\ tree = NoTree /\ executed = <<>>

---------------------------------------------------------------------------
(* Properties of DataField.compute() *)

\* the call of compute() has returned or raised
Computed == outcome.st \in {"returned", "raised"}

\* the places of the template where a placeholder starts: a $ that does not
\* follow a letter, a digit, an underscore or another $
PlaceholderStarts(t) ==
    {i \in 1..Len(t) : Ch(t, i) = "$" /\ (i = 1 \/ ~IsVarChar(Ch(t, i - 1)))}

RECURSIVE PlaceholderEnd(_, _)
\* the index of the last character of the placeholder that covers index i
PlaceholderEnd(t, i) ==
    IF i < Len(t) /\ IsVarChar(Ch(t, i + 1)) THEN PlaceholderEnd(t, i + 1) ELSE i

\* the ids the placeholders of the template name
PlaceholderIds(t) ==
    {SubSeq(t, i + 1, PlaceholderEnd(t, i)) : i \in PlaceholderStarts(t)}

\* the text of the template outside its placeholders holds a __, a
\* deny-listed name in some letter case, or a walrus
TemplateViolation(t) ==
    \/ \E i \in 1..(Len(t) - 1) :
          /\ SubSeq(t, i, i + 1) = "__"
          /\ \A j \in PlaceholderStarts(t) : i < j \/ i > PlaceholderEnd(t, j)
    \/ \E i \in 1..Len(t), j \in 1..Len(t) :
          /\ i <= j /\ Lower(SubSeq(t, i, j)) \in INVALID_NAMES
          /\ (i = 1 \/ ~IsVarChar(Ch(t, i - 1)))
          /\ (j = Len(t) \/ ~IsVarChar(Ch(t, j + 1)))
    \/ \E i \in 1..(Len(t) - 1) : SubSeq(t, i, i + 1) = ":="

\* C11 as the specification words it: for a template with a sandbox
\* violation and for every row, compute() fails with the violation error
\* and returns neither null nor 0.
C11_ViolationFailsForEveryRow ==
    (Computed /\ TemplateViolation(field)) => outcome = Raised("SyntaxError")

\* C11: for a template with a sandbox violation outside its placeholders
\* and a row that holds every id the template names, compute() hands the
\* substituted text to the evaluator and fails with SyntaxError; a violation
\* the evaluator raises is never turned into null or 0.  (For a row that
\* lacks a named id the lookup fails first and compute() returns null.)
C11_ViolationNeverDowngraded ==
    /\ (Computed /\ TemplateViolation(field) /\ PlaceholderIds(field) \subseteq DOMAIN data) =>
            Len(handed) = 1 /\ outcome = Raised("SyntaxError")
    /\ (Computed /\ Len(handed) = 1 /\ evaluate(handed[1], {}).exc = "SyntaxError") =>
            outcome = Raised("SyntaxError")

\* C11: a call that failed with SyntaxError for a template that calls a
\* deny-listed name on a field the row holds
C11_Witness ==
    /\ Computed /\ field = "print($a)" /\ "a" \in DOMAIN data
    /\ handed = <<"print(6)">> /\ outcome = Raised("SyntaxError")

RECURSIVE WordEnd(_, _)
\* the index of the last character of the run of letters, digits and
\* underscores that follows index i
WordEnd(t, i) ==
    IF i < Len(t) /\ IsIdChar(Ch(t, i + 1)) THEN WordEnd(t, i + 1) ELSE i

\* the field ids a template refers to: after each $, the letters, digits
\* and underscores that follow it
ReferencedIds(t) ==
    {SubSeq(t, i + 1, WordEnd(t, i)) : i \in {j \in 1..Len(t) : Ch(t, j) = "$"}} \ {""}

RECURSIVE ExpectedFrom(_, _, _)
\* the template from index i on with each $id replaced by str(row[id]), the
\* replaced text not read again
ExpectedFrom(t, i, row) ==
    IF i > Len(t) THEN ""
    ELSE IF Ch(t, i) = "$" /\ WordEnd(t, i) > i
    THEN Str(row[SubSeq(t, i + 1, WordEnd(t, i))]) \o ExpectedFrom(t, WordEnd(t, i) + 1, row)
    ELSE Ch(t, i) \o ExpectedFrom(t, i + 1, row)

\* C12: for a template whose placeholders are each a $ and an id, and a row
\* that holds every referenced id, the string handed to the evaluator is
\* the template with each $id replaced by the string form of row[id] for
\* exactly that id, also when one id is the start of another and when a
\* value holds a $.
C12_SubstitutionExact ==
    (/\ Computed
     /\ ReferencedIds(field) # {}
     /\ PlaceholderIds(field) = ReferencedIds(field)
     /\ ReferencedIds(field) \subseteq DOMAIN data) =>
        handed = <<ExpectedFrom(field, 1, data)>>

\* C13: compute() returns null, and calls no evaluator, whenever the row
\* lacks the id of a placeholder of the template; it returns 0 whenever the
\* evaluation of the substituted text raises ZeroDivisionError; and the
\* row passed in is never changed.
C13_NullAndZero ==
    /\ [](/\ (Computed /\ ~(PlaceholderIds(field) \subseteq DOMAIN data)) =>
                outcome = Returned(VNone) /\ handed = <<>>
          /\ (Computed /\ Len(handed) = 1
                /\ evaluate(handed[1], {}).exc = "ZeroDivisionError") =>
                outcome = Returned(VInt(0)))
    /\ [][data' = data]_vars

\* C13: a call that returned null for a template whose second field the
\* row lacks
C13_Witness ==
    /\ Computed /\ field = "$a + $b" /\ DOMAIN data = {"a"}
    /\ handed = <<>> /\ outcome = Returned(VNone)

---------------------------------------------------------------------------
(* Properties of multikeysort() *)

\* the call of multikeysort() has returned
Sorted == sorted.st = "returned"

\* the key a sort column names, without its - and the blanks around it
KeyOf(col) == IF Ch(col, 1) = "-" THEN Strip(SubSeq(col, 2, Len(col))) ELSE Strip(col)

\* every row holds every sort key, and the values under a key are all
\* numbers or all strings
Sortable ==
    \A c \in 1..Len(columns) :
        /\ \A i \in 1..Len(sortItems) : KeyOf(columns[c]) \in DOMAIN sortItems[i]
        /\ \/ \A i \in 1..Len(sortItems) : sortItems[i][KeyOf(columns[c])].k = "int"
           \/ \A i \in 1..Len(sortItems) : sortItems[i][KeyOf(columns[c])].k = "str"

\* x < y for two ints or two strings
ValueBefore(x, y) == IF x.k = "int" THEN x.n < y.n ELSE StrCmp(x.s, y.s, 1) < 0

\* row x goes before row y under the c-th sort key alone
BeforeOn(x, y, c) ==
    IF Ch(columns[c], 1) = "-"
    THEN ValueBefore(y[KeyOf(columns[c])], x[KeyOf(columns[c])])
    ELSE ValueBefore(x[KeyOf(columns[c])], y[KeyOf(columns[c])])

\* rows x and y have the same value under the sort keys before the c-th
TiedBefore(x, y, c) ==
    \A k \in 1..(c - 1) : x[KeyOf(columns[k])] = y[KeyOf(columns[k])]

\* row x goes before row y: under the first key on which they differ
RowBefore(x, y) ==
    \E c \in 1..Len(columns) : TiedBefore(x, y, c) /\ BeforeOn(x, y, c)

\* C17: for rows that hold the sort keys with comparable values,
\* multikeysort returns a permutation of its items ordered by the keys in
\* priority order, ascending for a plain id and descending for an id after
\* -, rows equal on every key keeping their input order.
C17_StableMultiKeySort ==
    (sorted.st # "running" /\ Sortable) =>
        /\ Sorted
        /\ \E p \in Permutations(1..Len(sortItems)) :
              /\ sorted.val = [i \in 1..Len(sortItems) |-> sortItems[p[i]]]
              /\ \A i \in 1..Len(sortItems), j \in 1..Len(sortItems) :
                    i < j => /\ ~RowBefore(sortItems[p[j]], sortItems[p[i]])
                             /\ RowBefore(sortItems[p[i]], sortItems[p[j]]) \/ p[i] < p[j]

\* C17: three rows sorted by b descending, then a ascending: the row with
\* the greater b has moved to the front and two rows equal in a and b, which
\* differ in t, have kept their order
C17_Witness ==
    /\ Sorted /\ columns = <<"-b", "a">> /\ Len(sortItems) = 3
    /\ sortItems[3].b.n > sortItems[1].b.n /\ sorted.val[1] = sortItems[3]
    /\ sortItems[1].a = sortItems[2].a /\ sortItems[1].b = sortItems[2].b
    /\ sortItems[1].t # sortItems[2].t
    /\ sorted.val[2] = sortItems[1] /\ sorted.val[3] = sortItems[2]

---------------------------------------------------------------------------
(* Properties of GroupedDataReport.apply() *)

\* the i-th field is a computed field
IsComputed(i) == TheFields[i].type = "computed"

\* the expression of the i-th field holds the placeholder $id
RefersTo(i, id) ==
    \E t \in 1..Len(ReSplit(TheFields[i].value)) :
        ReSplit(TheFields[i].value)[t] = "$" \o id

\* the row as the i-th field is to see it: the literal, property, metric and
\* template values of the row and the values of the computed fields declared
\* before it, the ids of the computed fields from it on being absent
SeenBy(i) ==
    [id \in DOMAIN groupRow \ {TheFields[j].id : j \in {h \in i..Len(TheFields) : IsComputed(h)}}
        |-> groupRow[id]]

\* C14: once the computed fields of a row are built, each holds what its
\* expression gives on the resolved values of the row and the stored values
\* of the computed fields declared before it, and a computed field whose
\* expression refers to a computed field declared after it is null.
C14_ComputedInConfiguredOrder ==
    stage.op = "gapfill" =>
        \A i \in 1..Len(TheFields) : IsComputed(i) =>
            /\ TheFields[i].id \in DOMAIN groupRow
            /\ groupRow[TheFields[i].id] = compute(TheFields[i].value, SeenBy(i)).val
            /\ (\E j \in (i + 1)..Len(TheFields) :
                    IsComputed(j) /\ RefersTo(i, TheFields[j].id))
               => groupRow[TheFields[i].id] = VNone

\* C14: cpu is 5 and speed 3; x = $cpu * $speed is 15, y = $x + $hosts, which
\* is declared after x, is 17, and z = $w + 1, declared before w, is null
C14_Witness ==
    /\ stage.op = "gapfill"
    /\ {"cpu", "speed", "hosts", "x", "y", "z", "w"} \subseteq DOMAIN groupRow
    /\ groupRow["cpu"] = VInt(5) /\ groupRow["speed"] = VInt(3)
    /\ groupRow["hosts"] = VInt(2)
    /\ groupRow["x"] = VInt(15) /\ groupRow["y"] = VInt(17)
    /\ groupRow["z"] = VNone /\ groupRow["w"] = VInt(5)

\* the stages of one group in the order apply() is to run them
GroupStages ==
    <<"string", "property", "commodity", "template", "computed", "gapfill", "append">>

\* the place of a stage of a group in GroupStages
Rank(op) == CHOOSE i \in 1..Len(GroupStages) : GroupStages[i] = op

\* stage t may follow stage s: the next related type of the same stage, the
\* next stage of the same group, the first stage of the next group after a
\* row is appended, the sort after the row of the last group, the projection
\* after the sort, and the end after the projection or an exception
Follows(s, t) ==
    \/ /\ s.op \in {"commodity", "template"} /\ t.op = s.op
       /\ t.g = s.g /\ t.k = s.k + 1
    \/ /\ s.op \in {"string", "property", "computed", "gapfill"}
       /\ t.g = s.g /\ t.op = GroupStages[Rank(s.op) + 1]
    \/ /\ s.op = "commodity" /\ s.k = Len(CommodityTypes)
       /\ t.g = s.g /\ t.op = "template" /\ t.k = 1
    \/ /\ s.op = "template" /\ s.k = Len(TemplateTypes)
       /\ t.g = s.g /\ t.op = "computed"
    \/ s.op = "append" /\ s.g < Len(config.groups) /\ t.op = "string" /\ t.g = s.g + 1
    \/ s.op = "append" /\ s.g = Len(config.groups) /\ t.op = "sort"
    \/ s.op = "sort" /\ t.op = "project"
    \/ s.op = "project" /\ t.op = "done"

\* the report of the example: one metric cpu labeled CPU, two groups with
\* cpu 5 and 7, sorted by cpu descending
IsExample ==
    /\ config.fields = <<Config("cpu", "commodity", "CPU:values:avg", VStr("CPU"))>>
    /\ config.groups = <<"g1", "g2">>
    /\ config.sort = <<"-cpu">>
    /\ config.conn = Healthy

WithLabel ==
    LET has(f) == f.label.k # "none" IN SelectSeq(TheFields, has)

\* C16: every row apply() returns has exactly one entry per field that has
\* a non-null label, keyed by the label text, in the order the fields were
\* declared, and no entry for any other field.
C16_OneEntryPerLabeledField ==
    report.st = "returned" =>
        \A r \in 1..Len(report.val) :
            /\ Len(report.val[r]) = Len(WithLabel)
            /\ \A j \in 1..Len(WithLabel) :
                  j <= Len(report.val[r]) => report.val[r][j][1] = WithLabel[j].label.s

\* the raw observations the connection returns for the stats of the related
\* type of the group
Observations(group, related) == config.conn.stats[<<group, related>>].val.items

\* observation v counts for field f of the related type: its metric name is
\* the field's, and for the Cluster type its epoch is CURRENT
Counts(v, f, related) ==
    /\ v.map["name"] = VStr(f.name)
    /\ related = "Cluster" => v.map["epoch"] = VStr("CURRENT")

\* the retrieval has succeeded and every observation holds its name, for
\* the Cluster type its epoch, and a number at the path of every field it
\* counts for
Regular(group, related) ==
    /\ config.conn.stats[<<group, related>>].exc = ""
    /\ \A i \in 1..Len(Observations(group, related)) :
          LET v == Observations(group, related)[i]
          IN  /\ "name" \in DOMAIN v.map
              /\ related = "Cluster" => "epoch" \in DOMAIN v.map
              /\ \A j \in 1..Len(TheFields) :
                    (TheFields[j].type = "commodity" /\ Counts(v, TheFields[j], related))
                    => /\ tree_get(v, "", TheFields[j].value).exc = ""
                       /\ tree_get(v, "", TheFields[j].value).val.k = "int"

RECURSIVE Total(_, _, _, _)
\* the sum of the path value of f over the observations from the i-th on
\* that count for f
Total(obs, i, f, related) ==
    IF i > Len(obs) THEN 0
    ELSE (IF Counts(obs[i], f, related) THEN tree_get(obs[i], "", f.value).val.n ELSE 0)
         + Total(obs, i + 1, f, related)

\* C18: when the metric stage of a group is over, each metric field holds
\* the sum of its path value over the observations of its related type that
\* bear its metric name, those of the Cluster type counting only when their
\* epoch is CURRENT, and a field no observation counts for is not set.
C18_MetricRollUp ==
    stage.op = "computed" =>
        \A j \in 1..Len(TheFields), t \in 1..Len(CommodityTypes) :
            (/\ TheFields[j].type = "commodity"
             /\ TheFields[j].name \in commodities[CommodityTypes[t]]
             /\ Regular(TheGroup, CommodityTypes[t]))
            => IF \E i \in 1..Len(Observations(TheGroup, CommodityTypes[t])) :
                      Counts(Observations(TheGroup, CommodityTypes[t])[i],
                             TheFields[j], CommodityTypes[t])
               THEN /\ TheFields[j].id \in DOMAIN groupRow
                    /\ groupRow[TheFields[j].id] =
                          VInt(Total(Observations(TheGroup, CommodityTypes[t]), 1,
                                     TheFields[j], CommodityTypes[t]))
               ELSE TheFields[j].id \notin DOMAIN groupRow

\* C18: the hosts of g1 report CPU 2 and 3, which make cpu 5; of the
\* cluster's numHosts 4, 2 and 8 only the 2 of epoch CURRENT makes hosts
C18_Witness ==
    /\ stage.op = "computed" /\ TheGroup = "g1" /\ config.conn = Healthy
    /\ {"cpu", "hosts"} \subseteq DOMAIN groupRow
    /\ groupRow["cpu"] = VInt(5)
    /\ groupRow["hosts"] = VInt(2)

\* C19: within one apply() no two requests for stats made of the connection
\* are for the same group id and the same related entity type.
C19_NoStatsRequestTwice ==
    \A i \in 1..Len(calls), j \in 1..Len(calls) :
        (i < j /\ calls[i].op = "get_entity_stats" /\ calls[j].op = "get_entity_stats")
        => ~(calls[i].scope = calls[j].scope /\ calls[i].related = calls[j].related)

\* C20: when stop_on_error is configured, an exception caught while the data
\* of a group is gathered is raised again and apply() ends raising it.
C20_StopOnErrorAborts ==
    (config.stop_on_error /\ log # <<>>) =>
        /\ stage.op = "done"
        /\ report = Raised(log[1].exc)

---------------------------------------------------------------------------
(* Properties of DataField.tree_get() *)

\* the segments of a colon-delimited path
RECURSIVE Segments(_)
Segments(path) ==
    IF Len(SplitColon(path)) = 1 THEN <<path>>
    ELSE <<SplitColon(path)[1]>> \o Segments(SplitColon(path)[2])

\* data contains the whole path keys: every segment is a key of the mapping
\* the segments before it lead to
RECURSIVE Present(_, _)
Present(t, keys) ==
    \/ keys = <<>>
    \/ /\ t.k = "tree"
       /\ keys[1] \in DOMAIN t.map
       /\ Present(t.map[keys[1]], Tail(keys))

\* data[k1][k2]...[kn] of a path that is present
RECURSIVE Descend(_, _)
Descend(t, keys) == IF keys = <<>> THEN t ELSE Descend(t.map[keys[1]], Tail(keys))

\* the exceptions the callers take for a missing field: except (KeyError,
\* IndexError)
LookupErrors == {"KeyError", "IndexError"}

\* C28: tree_get(data, "k1:...:kn") returns data[k1]...[kn] when data
\* contains the whole path, and fails with a lookup error whenever a segment
\* is absent, an intermediate value that is a leaf included; it never
\* returns a value for a path that is not fully present.
C28_TreeGetLookup ==
    treeGot.st # "running" =>
        IF Present(treeData, Segments(treePath))
        THEN treeGot.st = "returned"
             /\ treeGot.val = Descend(treeData, Segments(treePath))
        ELSE treeGot.st = "raised" /\ treeGot.exc \in LookupErrors

---------------------------------------------------------------------------
(* Properties of FilterSet *)

\* the keys of a dict that are not reserved
Unreserved(m) == {k \in DOMAIN m : Lower(k) \notin {"scope", "scopes"}}

RECURSIVE MergedAs(_, _, _)
\* values is what the merge rule makes of the dicts base and child: the
\* unreserved keys of base and the keys of child, a key of child holding
\* the value of child, or the merge of both values when the value of child
\* is a dict and the key is one of base, and any other key the value of base
MergedAs(values, base, child) ==
    /\ values.k = "tree"
    /\ DOMAIN values.map = Unreserved(base.map) \cup DOMAIN child.map
    /\ \A k \in DOMAIN values.map :
          IF k \notin DOMAIN child.map THEN values.map[k] = base.map[k]
          ELSE IF child.map[k].k = "tree" /\ k \in Unreserved(base.map)
          THEN base.map[k].k = "tree" =>
                   MergedAs(values.map[k], base.map[k], child.map[k])
          ELSE values.map[k] = child.map[k]

\* C23: the values of FilterSet(config, base) hold every base key but the
\* reserved ones, each key of the child replaced by the child's value or
\* deep-merged by the same rule when that value is a mapping and the key
\* exists in the base, base keys absent from the child kept; without a base
\* the values are the config minus the reserved keys.
C23_FilterSetMerge ==
    filterValues.st # "running" =>
        /\ filterValues.st = "returned"
        /\ IF filterBase.k = "none"
           THEN filterValues.val = Tree([k \in Unreserved(filterConfig.map) |->
                                            filterConfig.map[k]])
           ELSE MergedAs(filterValues.val, filterBase, filterConfig)

---------------------------------------------------------------------------
(* Properties of unit_cast, mem_cast and cpu_cast *)

\* the call examined has returned or raised
Cast_Done == castResult.st \in {"returned", "raised"}

\* the scale and the factor the call converts on
ScaleOf(args) ==
    CASE args.fn = "unit_cast" -> args.unit_list
      [] args.fn = "mem_cast" -> <<"B", "KB", "MB", "GB", "TB", "PB", "EB", "ZB", "YB">>
      [] args.fn = "cpu_cast" -> <<"HZ", "MHZ", "GHZ", "THZ", "PHZ">>

FactorOf(args) ==
    CASE args.fn = "unit_cast" -> Decimal(args.factor)
      [] args.fn = "mem_cast" -> D(0, <<1, 0, 2, 4>>, 0)
      [] args.fn = "cpu_cast" -> D(0, <<1, 0, 0, 0>>, 0)

\* index(to) - index(from) in scale
OffsetIn(scale, from, to) == Index(scale, to) - Index(scale, from)

\* value * factor^|offset| when offset <= 0, value / factor^|offset| when
\* offset > 0, the quotient rounded once
Converted(value, factor, offset) ==
    IF offset <= 0 THEN Mul(Decimal(value), Power(factor, -offset))
    ELSE TrueDiv(Decimal(value), Power(factor, offset))

\* C24: unit_cast with offset = index(to) - index(from) returns
\* value * factor^|offset| when offset <= 0 and value / factor^|offset| when
\* offset > 0, so that a unit converted to itself is unchanged and a value
\* converted one way and back is the original value; it fails with a lookup
\* error when a unit is absent from the scale.
C24_UnitCastFormula ==
    /\ Cast_Done
    /\ castArgs.ufrom # <<>>
    /\ castArgs.precision = VBool(FALSE)
    => IF Index(ScaleOf(castArgs), Upper(castArgs.ufrom[1])) = 0
          \/ Index(ScaleOf(castArgs), Upper(castArgs.uto)) = 0
       THEN castResult = Raised("ValueError")
       ELSE /\ castResult.st = "returned"
            /\ Equal(castResult.val,
                     Converted(castArgs.value, FactorOf(castArgs),
                               OffsetIn(ScaleOf(castArgs), Upper(castArgs.ufrom[1]),
                                        Upper(castArgs.uto))))
            /\ castArgs.ufrom[1] = castArgs.uto =>
                   Equal(castResult.val, Decimal(castArgs.value))
            /\ castArgs.leg = 2 => Equal(castResult.val, Decimal(castArgs.first))

\* the SI prefixes of the hertz from Hz to PHz, one factor of 1000 a step
SIScale == <<"HZ", "KHZ", "MHZ", "GHZ", "THZ", "PHZ">>

\* C25: cpu_cast converts on the SI frequency scale from Hz to PHz, one
\* factor of 1000 per prefix step: 2 MHz converted to Hz is 2000000.
C25_CpuCastSIScale ==
    /\ Cast_Done
    /\ castArgs.fn = "cpu_cast" /\ castArgs.leg = 1
    /\ castArgs.ufrom # <<>>
    /\ castArgs.precision = VBool(FALSE)
    => /\ castResult.st = "returned"
       /\ Equal(castResult.val,
                Converted(castArgs.value, D(0, <<1, 0, 0, 0>>, 0),
                          OffsetIn(SIScale, castArgs.ufrom[1], castArgs.uto)))

\* the source unit of the platform: KB for memory, MHz for CPU
NativeUnit(fn) == IF fn = "mem_cast" THEN "KB" ELSE "MHZ"

\* C26: a call of mem_cast or cpu_cast that gives no source unit returns
\* what the call with src_unit='KB', or src_unit='MHZ', returns, for every
\* value and every destination unit of the scale, and does not fail.
C26_DefaultSourceUnit ==
    /\ Cast_Done
    /\ castArgs.fn \in {"mem_cast", "cpu_cast"}
    /\ castArgs.ufrom = <<>>
    /\ Index(ScaleOf(castArgs), Upper(castArgs.uto)) # 0
    => /\ castResult.st = "returned"
       /\ castResult = Ended(Call([castArgs EXCEPT !.ufrom = <<NativeUnit(castArgs.fn)>>]))

\* C27: unit_cast rounds its result half-even to precision fractional
\* digits for every integer precision, 0 included, and returns it unrounded
\* only when precision is False.
C27_RoundsToPrecision ==
    /\ Cast_Done
    /\ Call([castArgs EXCEPT !.precision = VBool(FALSE)]).exc = ""
    => /\ castResult.st = "returned"
       /\ IF castArgs.precision = VBool(FALSE)
          THEN castResult.val = Call([castArgs EXCEPT !.precision = VBool(FALSE)]).val
          ELSE /\ Round(Call([castArgs EXCEPT !.precision = VBool(FALSE)]).val,
                        castArgs.precision.n).exc = ""
               /\ Equal(castResult.val,
                        Round(Call([castArgs EXCEPT !.precision = VBool(FALSE)]).val,
                              castArgs.precision.n).val)

---------------------------------------------------------------------------
(* Properties of Scope, ActionSet and ActionDataReport *)

\* the kinds of scope in the order they are probed, with their existence checks
Kinds == <<"market", "entity", "group", "target">>
KindCheck == [market |-> "get_markets", entity |-> "get_entities",
              group |-> "get_groups", target |-> "get_targets"]

\* a probe that returns an empty result or raises an HTTP 400-class error
Miss(answer) == answer \in {"empty", "HTTP400Error"}

\* the first kind whose probe succeeds, 0 when there is none
FirstHit(uuid) ==
    IF \E k \in 1..Len(Kinds) : Answers(uuid)[k] = "found"
    THEN CHOOSE k \in 1..Len(Kinds) :
            /\ Answers(uuid)[k] = "found"
            /\ \A h \in 1..(k - 1) : Answers(uuid)[h] # "found"
    ELSE 0

\* the last probe that resolving the uuid takes
LastProbe(uuid) == IF FirstHit(uuid) = 0 THEN Len(Kinds) ELSE FirstHit(uuid)

\* the descriptor declares one of the types, or every probe that resolving it
\* takes is a hit or a miss
Resolvable(s) ==
    IF s.type # "" THEN Lower(s.type) \in ScopeTypes
    ELSE \A k \in 1..LastProbe(s.id) : Answers(s.id)[k] = "found" \/ Miss(Answers(s.id)[k])

\* the type the scope is to have, "" for the unresolved sentinel
ResolvedType(s) ==
    IF s.type # "" THEN Lower(s.type)
    ELSE IF FirstHit(s.id) = 0 THEN ""
    ELSE Kinds[FirstHit(s.id)]

\* the probes resolving the scope is to make
ProbesFor(s) ==
    IF s.type # "" THEN <<>>
    ELSE [k \in 1..LastProbe(s.id) |-> Req(KindCheck[Kinds[k]], s.id, "")]

RECURSIVE ProbesUpTo(_, _)
\* the probes resolving the first n scopes is to make
ProbesUpTo(scopes, n) ==
    IF n = 0 THEN <<>> ELSE ProbesUpTo(scopes, n - 1) \o ProbesFor(scopes[n])

\* the scope whose resolution is to fail with ValueError: the first that no
\* probe finds when stop_error is set; past the last scope when there is none
FirstUnresolved(scopes, stop) ==
    IF stop /\ \E n \in 1..Len(scopes) : ResolvedType(scopes[n]) = ""
    THEN CHOOSE n \in 1..Len(scopes) :
            /\ ResolvedType(scopes[n]) = ""
            /\ \A h \in 1..(n - 1) : ResolvedType(scopes[h]) # ""
    ELSE Len(scopes) + 1

\* a report on scopes is constructed
ScopesGiven ==
    /\ options # <<>>
    /\ options.report = "actions"
    /\ Truthy(options.filters)
    /\ "scopes" \in DOMAIN options.filters.map

\* the construction of the report is over
Constructed == point.op \in {"apply", "failed"}

\* the type of the action set kept for the uuid
TypeKept(uuid) ==
    LET at == CHOOSE n \in 1..Len(sets) : sets[n][1] = uuid IN sets[at][2].type

\* the last of the first n scopes that has the uuid
LastWith(scopes, n, uuid) ==
    CHOOSE h \in 1..n : scopes[h].id = uuid /\ \A g \in (h + 1)..n : scopes[g].id # uuid

\* the action sets hold the first n scopes, each with the type it resolves to
ScopesKept(scopes, n) ==
    /\ {sets[h][1] : h \in 1..Len(sets)} = {scopes[h].id : h \in 1..n}
    /\ \A h \in 1..Len(sets) :
          TypeKept(sets[h][1]) = ResolvedType(scopes[LastWith(scopes, n, sets[h][1])])

\* C21: a declared type is used without a probe; otherwise the connection is
\* probed in the order Market, Entity, Group, Target, an empty result or an
\* HTTP 400-class error being a miss, up to the first kind that is found,
\* which is the type; when every probe misses the type is None, or
\* construction fails with ValueError if stop_error is set
C21_ScopeResolution ==
    (ScopesGiven /\ Constructed /\ \A n \in 1..Len(TheScopes) : Resolvable(TheScopes[n]))
    => LET m == FirstUnresolved(TheScopes, options.stop_on_error)
       IN  IF m <= Len(TheScopes)
           THEN /\ requests = ProbesUpTo(TheScopes, m)
                /\ ScopesKept(TheScopes, m - 1)
                /\ ended = Raised("ValueError")
           ELSE /\ requests = ProbesUpTo(TheScopes, Len(TheScopes))
                /\ ScopesKept(TheScopes, Len(TheScopes))
                /\ point.op = "apply"

\* a group found at the third probe after a 400 and an empty result, then a
\* scope that no probe finds, resolved
C21_Witness ==
    /\ ScopesGiven /\ Constructed
    /\ TheScopes = <<Descriptor("g1", ""), Descriptor("x1", "")>>
    /\ Len(requests) = 7
    /\ Len(sets) = 2
    /\ sets[1][2].type = "group"
    /\ sets[2][2].type = ""

\* a declared type in mixed case used without a probe
C21_WitnessDeclared ==
    /\ ScopesGiven /\ Constructed
    /\ TheScopes = <<Descriptor("g1", "Group")>>
    /\ requests = <<>>
    /\ sets[1][2].type = "group"


\* a report on scopes that is not to stop on errors
Lenient == ScopesGiven /\ ~options.stop_on_error

\* the uuids of the action sets kept
SetIds == {sets[h][1] : h \in 1..Len(sets)}

\* how many pages of a result are read: those before the one whose read fails
PagesRead == IF platform.fault = 0 THEN platform.pages ELSE platform.fault - 1

\* the row of the report for the n-th action of a scope
RowOf(uuid, n) ==
    <<<<"Site", VStr("lab")>>, <<"Action", VStr(uuid \o "-" \o Ch(DIGITS, n + 1))>>,
      <<"Scope", VStr(uuid)>>>>

\* the rows of the report for a scope
RowsOf(uuid) == {RowOf(uuid, n) : n \in 1..(2 * PagesRead)}

\* the rows apply() returned
RowsReturned == {ended.val[h] : h \in 1..Len(ended.val)}

\* apply() is over
Applied == point.op = "done"

\* a scope that no probe finds
Unresolved(s) == Resolvable(s) /\ ResolvedType(s) = ""

\* C22: with stop_on_error not set, a report with a scope whose type cannot
\* be resolved completes apply() without raising; that scope contributes no
\* rows and the rows of the other scopes are returned
C22_UnresolvedScopeRecoverable ==
    (/\ Lenient /\ Applied
     /\ \A n \in 1..Len(TheScopes) : Resolvable(TheScopes[n])
     /\ \E n \in 1..Len(TheScopes) : Unresolved(TheScopes[n]))
    => /\ ended.st = "returned"
       /\ RowsReturned =
            UNION {RowsOf(TheScopes[n].id) : n \in {h \in 1..Len(TheScopes) : ~Unresolved(TheScopes[h])}}

\* the scope can be built on its own: its declared type is one of the types,
\* or none of the probes its resolution takes raises
Buildable(s) == Resolvable(s)

\* C30: with stop_on_error not set, a failure while building the action set
\* of one scope does not keep the scopes after it from being built: once the
\* report is constructed every scope that can be built on its own has an
\* action set, and apply() returns the rows of those that are resolved
C30_LaterScopesBuilt ==
    Lenient
    => /\ (point.op \in {"apply", "request", "page", "left", "finish", "done"}
           => \A n \in 1..Len(TheScopes) :
                 Buildable(TheScopes[n]) => TheScopes[n].id \in SetIds)
       /\ (Applied /\ (\A n \in 1..Len(TheScopes) : ~Unresolved(TheScopes[n]))
           => /\ ended.st = "returned"
              /\ RowsReturned =
                   UNION {RowsOf(TheScopes[g].id) :
                            g \in {h \in 1..Len(TheScopes) : Buildable(TheScopes[h])}})

\* the uuid whose paged result is read
Retrieved ==
    IF options.report = "actions" THEN sets[point.i][2].uuid ELSE options.report

\* what a retrieval is to gather of an item
Gathers(item) == IF options.report = "clusters" THEN item.map.uuid ELSE item

\* the items of the first n pages of the result in the order received
ItemsUpTo(uuid, n) ==
    [h \in 1..(2 * n) |-> Gathers(Item(uuid, h))]

\* C29: a paged retrieval (ActionSet.get_actions, Targets._get, Groups'
\* cluster enumeration) reads next until the pager is complete and returns
\* the pages in the order received; it ends when the pager completes; a pager
\* already complete gives the empty list; when a page read fails and
\* stop_error is not set the pages read so far are returned
C29_PagedRetrieval ==
    options # <<>>
    => /\ (point.op = "page" => actions = ItemsUpTo(Retrieved, platform.pages - Len(pager)))
       /\ (point.op = "left" => actions = ItemsUpTo(Retrieved, PagesRead))
       /\ (Applied /\ options.report # "actions" /\ ~options.stop_on_error
           => ended = Returned(ItemsUpTo(Retrieved, PagesRead)))
       /\ (Applied /\ options.report # "actions" /\ platform.fault = 0
           => ended = Returned(ItemsUpTo(Retrieved, platform.pages)))

====
